---- MODULE Spec2Model ----
(***************************************************************************)
(* Model of the Loader service (applications/services/loader/loader.c):    *)
(* the dispatcher thread loader_srv, its capacity-1 message queue, the     *)
(* client API that enqueues commands and waits on an api_lock, the single  *)
(* application slot loader->app, the application thread whose state        *)
(* callback enqueues AppClosed, and the menu file loader_alloc reads.      *)
(***************************************************************************)
EXTENDS Integers, Sequences, FiniteSets, TLC

\* ------------------------------------------------------------------ bounds

\* total number of API calls the client threads make in one behaviour
MaxCalls == 2
\* number of entry lines of a menu file found on the storage at startup
MaxLines == 2
\* number of API calls one client makes in a row
MaxScript == 3
\* number of FuriThread objects the allocator can hand out at the same time
MaxThreads == 2

\* the client threads that call the loader API
Clients == {1, 2}
ThreadIds == 1 .. MaxThreads

\* ------------------------------------------------------- program constants

NULL == 0
\* 0xDEADBEEF, read as a signed 32-bit word
LOADER_MAGIC_THREAD_VALUE == -559038737
\* a queue with room for a second message
QueueCapacityTwo == 1 + 1
QueueCapacity == 1
LOADER_APPLICATIONS_NAME == "Applications"
NoString == "<NULL>"
CallerText == "<caller's text>"

FlagDefault == {}
FlagInsomniaSafe == {"InsomniaSafe"}

\* application registries (applications.h)
FLIPPER_APPS ==
    << [name |-> "Bad KB", appid |-> "bad_kb", flags |-> FlagDefault] >>
FLIPPER_SYSTEM_APPS ==
    << [name |-> "UpdaterApp", appid |-> "updater_app", flags |-> FlagInsomniaSafe] >>
FLIPPER_DEBUG_APPS ==
    << [name |-> "Bad KB Debug", appid |-> "bad_kb", flags |-> FlagInsomniaSafe] >>
FLIPPER_EXTERNAL_APPS ==
    << [name |-> "Clock", path |-> "/ext/apps/Tools/clock.fap", flags |-> FlagInsomniaSafe],
       [name |-> "UpdaterApp", path |-> "/ext/apps/x.fap", flags |-> FlagDefault] >>
FLIPPER_SETTINGS_APPS ==
    << [name |-> "Power", path |-> "/ext/apps/Settings/power.fap", flags |-> FlagDefault] >>

\* files present on the storage, with the name in the manifest of each
StorageFiles ==
    [path \in {"/ext/apps/Tools/clock.fap", "/ext/apps/x.fap"} |->
        IF path = "/ext/apps/x.fap" THEN "X App" ELSE "Clock"]

\* files present on the storage whose name and icon cannot be read
UnreadableFiles == {"/ext/apps/broken.fap"}

storage_file_exists(path) == path \in DOMAIN StorageFiles \cup UnreadableFiles

\* ------------------------------------------------------------ input sets

PreloadStatuses ==
    {"Success", "InvalidFile", "NotEnoughMemory", "InvalidManifest", "ApiTooOld",
     "ApiTooNew", "TargetMismatch", "UnspecifiedError"}
LoadStatuses == {"Success", "MissingImports", "UnspecifiedError"}
DialogButtons == {"Left", "Right", "Back"}

\* what the collaborators of one external load answer: the preload status, the
\* load status, the button pressed in the version dialog, whether the binary is
\* a plugin; an answer that is never asked for is left at its first value
MismatchStatuses == {"ApiTooOld", "ApiTooNew"}
Envs ==
    {[preload |-> p, load |-> "Success", button |-> "Back", plugin |-> FALSE] :
        p \in PreloadStatuses \ ({"Success"} \cup MismatchStatuses)}
    \cup
    {[preload |-> p, load |-> l, button |-> "Back", plugin |-> FALSE] :
        p \in {"Success"} \cup MismatchStatuses, l \in LoadStatuses \ {"Success"}}
    \cup
    {[preload |-> "Success", load |-> "Success", button |-> "Back", plugin |-> g] :
        g \in BOOLEAN}
    \cup
    {[preload |-> p, load |-> "Success", button |-> b, plugin |-> FALSE] :
        p \in MismatchStatuses, b \in DialogButtons \ {"Right"}}
    \cup
    {[preload |-> p, load |-> "Success", button |-> "Right", plugin |-> g] :
        p \in MismatchStatuses, g \in BOOLEAN}
NoEnv == [preload |-> "Success", load |-> "Success", button |-> "Back", plugin |-> FALSE]

\* ------------------------------------------------------------- C strings

strcmp_eq(a, b) == a = b

\* strncmp(a, b, n) == 0: the first n characters agree, a terminator counting
strncmp_eq(a, b, n) ==
    LET ta == IF Len(a) < n THEN a ELSE SubSeq(a, 1, n)
        tb == IF Len(b) < n THEN b ELSE SubSeq(b, 1, n)
    IN  ta = tb

\* index of the last occurrence of character c in s, 0 when absent
RECURSIVE LastIndexOf(_, _, _)
LastIndexOf(s, c, i) ==
    IF i = 0 THEN 0
    ELSE IF SubSeq(s, i, i) = c THEN i
    ELSE LastIndexOf(s, c, i - 1)

\* path_extract_filename_no_ext (toolbox/path.h): the part after the last
\* slash, cut at its last dot
path_extract_filename_no_ext(path) ==
    LET slash == LastIndexOf(path, "/", Len(path))
        file == SubSeq(path, slash + 1, Len(path))
        dot == LastIndexOf(file, ".", Len(file))
    IN  IF dot = 0 THEN file ELSE SubSeq(file, 1, dot - 1)

\* sscanf: the white space of a format skips any white space of the input
IsSpace(ch) == ch \in {" ", "\t", "\r", "\n"}
RECURSIVE SkipSpace(_, _)
SkipSpace(s, i) ==
    IF i <= Len(s) /\ IsSpace(SubSeq(s, i, i)) THEN SkipSpace(s, i + 1) ELSE i

\* sscanf: the characters of lit are at position i of s; the position after
\* them, 0 when they are not there or nothing was matched before
MatchLiteral(s, i, lit) ==
    IF i > 0 /\ i + Len(lit) - 1 <= Len(s) /\ SubSeq(s, i, i + Len(lit) - 1) = lit
    THEN i + Len(lit) ELSE 0

DecimalDigits == <<"0", "1", "2", "3", "4", "5", "6", "7", "8", "9">>
IsDigit(ch) == \E d \in 1 .. 10 : DecimalDigits[d] = ch
DigitValue(ch) == (CHOOSE d \in 1 .. 10 : DecimalDigits[d] = ch) - 1

\* sscanf %lu: the decimal number at position i of s and the number of its
\* digits (a sign is not read)
RECURSIVE ScanUnsigned(_, _, _, _)
ScanUnsigned(s, i, value, count) ==
    IF i > 0 /\ i <= Len(s) /\ IsDigit(SubSeq(s, i, i))
    THEN ScanUnsigned(s, i + 1, (value * 10 + DigitValue(SubSeq(s, i, i))) % 65536,
                      count + 1)
    ELSE [value |-> value, count |-> count]

\* sscanf(line, "MenuAppList Version %lu", &version): the number of values
\* read and the version read
sscanf_menu_version(line) ==
    LET word == MatchLiteral(line, 1, "MenuAppList")
        version == MatchLiteral(line, IF word = 0 THEN 0 ELSE SkipSpace(line, word),
                                "Version")
        number == ScanUnsigned(line, IF version = 0 THEN 0 ELSE SkipSpace(line, version),
                               0, 0)
    IN  IF number.count > 0 THEN [count |-> 1, version |-> number.value]
        ELSE [count |-> 0, version |-> 0]

\* furi_string_replace_all(s, ch, ""): s without the character ch
RECURSIVE furi_string_remove_all(_, _)
furi_string_remove_all(s, ch) ==
    IF s = "" THEN ""
    ELSE IF SubSeq(s, 1, 1) = ch THEN furi_string_remove_all(SubSeq(s, 2, Len(s)), ch)
    ELSE SubSeq(s, 1, 1) \o furi_string_remove_all(SubSeq(s, 2, Len(s)), ch)

\* ----------------------------------------------------------- the menu file

\* a file of the storage as the lines stream_read_line returns, line feeds
\* left out
NoFile == [exists |-> FALSE, lines |-> << >>]
FileWith(lines) == [exists |-> TRUE, lines |-> lines]

\* the name column of a registry, in registry order
NameColumn(list) == [i \in 1 .. Len(list) |-> list[i].name]

\* loader_make_menu_file: unless the menu file exists or cannot be created,
\* writes the header of version 1, the names of FLIPPER_APPS, the names of
\* FLIPPER_EXTERNAL_APPS but the last, and the lines of xtreme_apps.txt,
\* which it then removes
loader_make_menu_file(dev) ==
    IF ~dev.sd_ok \/ dev.menu_file.exists THEN dev
    ELSE [dev EXCEPT
            !.menu_file =
                FileWith(<< "MenuAppList Version 1" >>
                         \o NameColumn(FLIPPER_APPS)
                         \o SubSeq(NameColumn(FLIPPER_EXTERNAL_APPS), 1,
                                   Len(FLIPPER_EXTERNAL_APPS) - 1)
                         \o (IF dev.legacy_file.exists THEN dev.legacy_file.lines
                             ELSE << >>)),
            !.legacy_file = NoFile]

\* the first entry of list with the name
RECURSIVE FirstNamed(_, _, _)
FirstNamed(list, name, i) ==
    IF i > Len(list) THEN 0
    ELSE IF strcmp_eq(name, list[i].name) THEN i
    ELSE FirstNamed(list, name, i + 1)

\* loader_menu_load_fap_meta: the name and the icon of a binary
loader_menu_load_fap_meta(path) ==
    IF path \in DOMAIN StorageFiles
    THEN [ok |-> TRUE, name |-> StorageFiles[path], icon |-> "fap"]
    ELSE [ok |-> FALSE, name |-> NoString, icon |-> NoString]

\* the body of the line loop of loader_alloc: the entries one line of the
\* menu file adds to loader->menu_apps
loader_menu_read_line(raw, version) ==
    LET bare == furi_string_remove_all(furi_string_remove_all(raw, "\r"), "\n")
        line == IF version = 0 /\ bare = "RFID" THEN "125 kHz RFID"
                ELSE IF version = 0 /\ bare = "SubGHz" THEN "Sub-GHz"
                ELSE bare
        meta == loader_menu_load_fap_meta(line)
        app == FirstNamed(FLIPPER_APPS, line, 1)
        ext == FirstNamed(FLIPPER_EXTERNAL_APPS, line, 1)
        entry ==
            IF storage_file_exists(line)
            THEN IF meta.ok
                 THEN [label |-> meta.name, icon |-> meta.icon, exe |-> line]
                 ELSE [label |-> NoString, icon |-> NoString, exe |-> NoString]
            ELSE IF app # 0
            THEN [label |-> FLIPPER_APPS[app].name, icon |-> "builtin",
                  exe |-> FLIPPER_APPS[app].name]
            ELSE IF ext # 0
            THEN [label |-> FLIPPER_EXTERNAL_APPS[ext].name, icon |-> "builtin",
                  exe |-> FLIPPER_EXTERNAL_APPS[ext].name]
            ELSE [label |-> NoString, icon |-> NoString, exe |-> NoString]
    IN  IF entry.label # NoString /\ entry.exe # NoString /\ entry.icon # NoString
        THEN << entry >> ELSE << >>

\* a line loop that keeps every line
loader_menu_read_lines_keep_all(lines, version) ==
    [i \in 1 .. Len(lines) |-> [label |-> lines[i], icon |-> "builtin", exe |-> lines[i]]]

\* the line loop of loader_alloc
RECURSIVE loader_menu_read_lines(_, _)
loader_menu_read_lines(lines, version) ==
    IF lines = << >> THEN << >>
    ELSE loader_menu_read_line(Head(lines), version)
            \o loader_menu_read_lines(Tail(lines), version)

\* a header check that takes any version number
menu_header_ok_any_version(file) ==
    /\ file.lines # << >>
    /\ sscanf_menu_version(Head(file.lines)).count = 1

\* the first line of the menu file is read and names version 0 or 1
menu_header_ok(file) ==
    /\ file.lines # << >>
    /\ sscanf_menu_version(Head(file.lines)).count = 1
    /\ sscanf_menu_version(Head(file.lines)).version <= 1

\* the menu file can be opened
menu_file_opens(dev) == dev.sd_ok /\ dev.menu_file.exists

\* loader_alloc from MenuAppList_init on: the storage it leaves and the
\* entries of loader->menu_apps
loader_alloc(dev) ==
    LET made == IF menu_file_opens(dev) THEN dev ELSE loader_make_menu_file(dev)
        remade == IF menu_header_ok(made.menu_file) THEN made
                  ELSE loader_make_menu_file([made EXCEPT !.menu_file = NoFile])
    IN  IF ~dev.normal_boot THEN [device |-> dev, menu_apps |-> << >>]
        ELSE IF ~menu_file_opens(made) THEN [device |-> made, menu_apps |-> << >>]
        ELSE IF ~menu_file_opens(remade) \/ ~menu_header_ok(remade.menu_file)
        THEN [device |-> remade, menu_apps |-> << >>]
        ELSE [device |-> remade,
              menu_apps |->
                  loader_menu_read_lines(
                      Tail(remade.menu_file.lines),
                      sscanf_menu_version(Head(remade.menu_file.lines)).version)]

\* the device at a first start: a normal boot, a storage with no menu file
FirstBoot ==
    [normal_boot |-> TRUE, sd_ok |-> TRUE, menu_file |-> NoFile, legacy_file |-> NoFile]

\* the first lines and the entry lines a menu file on the storage can have,
\* and the devices loader_alloc can find
MenuHeaders ==
    {"MenuAppList Version 0", "MenuAppList Version 1", "MenuAppList Version 2",
     "MenuAppList"}
MenuLines ==
    {"Bad KB", "Clock", "UpdaterApp", "Clock\r", "SubGHz", "/ext/apps/x.fap",
     "/ext/apps/gone.fap", "/ext/apps/broken.fap"}
LinesUpTo(n) == UNION {[1 .. k -> MenuLines] : k \in 0 .. n}
MenuFiles ==
    {NoFile, FileWith(<< >>)}
    \cup {FileWith(<< h >> \o body) : h \in MenuHeaders, body \in LinesUpTo(MaxLines)}
LegacyFiles ==
    {NoFile, FileWith(<< "/ext/apps/x.fap" >>), FileWith(<< "/ext/apps/gone.fap" >>)}
Devices ==
    [normal_boot : BOOLEAN, sd_ok : BOOLEAN, menu_file : MenuFiles,
     legacy_file : LegacyFiles]

\* ------------------------------------------------------------- the state

VARIABLES
    loader,     \* the Loader struct: loader_menu, loader_applications, app
    threads,    \* the FuriThread objects, by address
    insomnia,   \* furi_hal_power insomnia level (enter minus exit)
    events,     \* every LoaderEvent published on loader->pubsub, in order
    steps,      \* the effects of the handler executed last, in order
    queue,      \* loader->queue
    srv_pc,     \* position of loader_srv: "get" or "handle"
    message,    \* loader_srv's local LoaderMessage
    status,     \* the last loader_do_start_by_name: its result, how the name
                \* was resolved and what the collaborators answered
    dialog,     \* the dialogs shown by the last start, in order
    cpc,        \* position of each client thread
    creq,       \* the LoaderMessage on each client's stack
    result,     \* the result variable on each client's stack
    api_lock,   \* the api_lock of each client's call
    callbacks,  \* view callbacks blocked in furi_message_queue_put
    halted,     \* "no", "crash" (furi_check failed) or "reset" (power reset)
    calls,      \* number of API calls made so far
    nput,       \* number of messages accepted by the queue so far
    nhandled,   \* number of messages whose handler has returned
    releases,   \* number of times the slot has been released (AppClosed, Unlock)
    device      \* the boot mode and the storage: the card, the menu file and
                \* the list file of the earlier firmware

vars ==
    << loader, threads, insomnia, events, steps, queue, srv_pc, message, status,
       dialog, cpc, creq, result, api_lock, callbacks, halted, calls, nput,
       nhandled, releases, device >>

\* what only the dispatcher's handlers write
slotVars == << loader, insomnia, events, steps, status, releases, device >>
\* the dispatcher's position
srvVars == << srv_pc, message, nhandled >>
\* the client threads' stacks
clientVars == << cpc, creq, result, api_lock, calls >>

NoFap == [alloc |-> FALSE, path |-> NoString, name |-> NoString]
NoMenu == [alloc |-> FALSE, settings |-> FALSE]
NoThread == [state |-> "free", name |-> NoString, appid |-> NoString, signals |-> 0]

\* the part of the state the dispatcher's handlers read and write
State == [loader |-> loader, threads |-> threads, insomnia |-> insomnia,
          events |-> events, steps |-> steps]

\* ------------------------------------------------------------ collaborators

furi_pubsub_publish(S, event) ==
    [S EXCEPT !.events = Append(@, event), !.steps = Append(@, "publish " \o event)]

FreeThreadIds(ths) == {t \in ThreadIds : ths[t].state = "free"}

\* furi_thread_alloc_ex / flipper_application_alloc_thread: a new thread object
furi_thread_alloc(ths) == CHOOSE t \in FreeThreadIds(ths) : \A u \in FreeThreadIds(ths) : t <= u

furi_thread_start(S, t) ==
    [S EXCEPT !.threads[t].state = "running", !.steps = Append(@, "thread_start")]

\* furi_thread_join returns: the thread has come to its end
furi_thread_join(S, t) ==
    [S EXCEPT !.threads[t].state = "joined", !.steps = Append(@, "thread_join")]

furi_thread_free(S, t) ==
    [S EXCEPT !.threads[t] = NoThread, !.steps = Append(@, "thread_free")]

\* flipper_application_free: the binary is unloaded, its thread freed with it
flipper_application_free(S) ==
    LET t == S.loader.app.thread
    IN  [S EXCEPT !.threads = IF t \in ThreadIds THEN [@ EXCEPT ![t] = NoThread] ELSE @,
                  !.steps = Append(@, "fap_free")]

furi_hal_power_insomnia_enter(S) ==
    [S EXCEPT !.insomnia = @ + 1, !.steps = Append(@, "insomnia_enter")]

furi_hal_power_insomnia_exit(S) ==
    [S EXCEPT !.insomnia = @ - 1, !.steps = Append(@, "insomnia_exit")]

\* ---------------------------------------------------------------- resolver

loader_find_external_application_by_name(app_name) ==
    LET ext == {i \in 1 .. Len(FLIPPER_EXTERNAL_APPS) :
                    strcmp_eq(FLIPPER_EXTERNAL_APPS[i].name, app_name)}
        set == {i \in 1 .. Len(FLIPPER_SETTINGS_APPS) :
                    strcmp_eq(FLIPPER_SETTINGS_APPS[i].name, app_name)}
        first(I) == CHOOSE i \in I : \A j \in I : i <= j
    IN  IF ext # {}
        THEN [found |-> TRUE, path |-> FLIPPER_EXTERNAL_APPS[first(ext)].path,
              flags |-> FLIPPER_EXTERNAL_APPS[first(ext)].flags]
        ELSE IF set # {}
        THEN [found |-> TRUE, path |-> FLIPPER_SETTINGS_APPS[first(set)].path,
              flags |-> FLIPPER_SETTINGS_APPS[first(set)].flags]
        ELSE [found |-> FALSE, path |-> NoString, flags |-> FlagDefault]

NoApp == [name |-> NoString, appid |-> NoString, flags |-> FlagDefault]

loader_find_application_by_name_in_list(name, list) ==
    LET hits == {i \in 1 .. Len(list) :
                    strcmp_eq(name, list[i].name) \/ strcmp_eq(name, list[i].appid)}
    IN  IF hits = {} THEN [found |-> FALSE, app |-> NoApp]
        ELSE [found |-> TRUE, app |-> list[CHOOSE i \in hits : \A j \in hits : i <= j]]

\* a lookup that searches the registries in the reverse order
loader_find_application_by_name_debug_first(name) ==
    LET a == loader_find_application_by_name_in_list(name, FLIPPER_APPS)
        s == loader_find_application_by_name_in_list(name, FLIPPER_SYSTEM_APPS)
        d == loader_find_application_by_name_in_list(name, FLIPPER_DEBUG_APPS)
    IN  IF d.found THEN d ELSE IF s.found THEN s ELSE a

loader_find_application_by_name(name) ==
    LET a == loader_find_application_by_name_in_list(name, FLIPPER_APPS)
        s == loader_find_application_by_name_in_list(name, FLIPPER_SYSTEM_APPS)
        d == loader_find_application_by_name_in_list(name, FLIPPER_DEBUG_APPS)
    IN  IF a.found THEN a ELSE IF s.found THEN s ELSE d

\* ------------------------------------------------------------ lifecycle slot

\* an activation that leaves the ownership flag of the previous application
\* in place when the new one is insomnia-safe
loader_start_app_thread_stale_flag(S, flags) ==
    LET t == S.loader.app.thread
        S1 == IF "InsomniaSafe" \notin flags
              THEN [furi_hal_power_insomnia_enter(S) EXCEPT !.loader.app.insomniac = TRUE]
              ELSE S
    IN  furi_thread_start(S1, t)

loader_start_app_thread(S, flags) ==
    LET t == S.loader.app.thread
        S1 == IF "InsomniaSafe" \notin flags
              THEN [furi_hal_power_insomnia_enter(S) EXCEPT !.loader.app.insomniac = TRUE]
              ELSE [S EXCEPT !.loader.app.insomniac = FALSE]
    IN  furi_thread_start(S1, t)

\* an activation that publishes BeforeLoad when the thread already runs
loader_start_internal_app_late_event(S, app, args) ==
    LET stored == IF args # NoString /\ Len(args) > 0 THEN args ELSE S.loader.app.args
        t == furi_thread_alloc(S.threads)
        S2 == [S EXCEPT !.loader.app.args = stored,
                        !.loader.app.thread = t,
                        !.threads[t] = [state |-> "allocated", name |-> app.name,
                                        appid |-> app.appid, signals |-> 0]]
    IN  furi_pubsub_publish(loader_start_app_thread(S2, app.flags), "BeforeLoad")

loader_start_internal_app(S, app, args) ==
    LET S1 == furi_pubsub_publish(S, "BeforeLoad")
        stored == IF args # NoString /\ Len(args) > 0 THEN args ELSE S1.loader.app.args
        t == furi_thread_alloc(S1.threads)
        S2 == [S1 EXCEPT !.loader.app.args = stored,
                         !.loader.app.thread = t,
                         !.threads[t] = [state |-> "allocated", name |-> app.name,
                                         appid |-> app.appid, signals |-> 0]]
    IN  loader_start_app_thread(S2, app.flags)

loader_make_success_status(has_msg, old_msg) ==
    [value |-> "Ok", msg |-> IF has_msg THEN "App started" ELSE old_msg]

loader_make_status_error(value, has_msg, old_msg, text) ==
    [value |-> value, msg |-> IF has_msg THEN text ELSE old_msg]

\* --------------------------------------------------------- external loader

\* a mapping that has no kind of its own for a target mismatch
loader_status_error_from_preload_status_no_hw(preload_res) ==
    CASE preload_res = "InvalidFile" -> "InvalidFile"
      [] preload_res = "NotEnoughMemory" -> "OutOfMemory"
      [] preload_res = "InvalidManifest" -> "InvalidManifest"
      [] preload_res = "ApiTooOld" -> "OutdatedApp"
      [] preload_res = "ApiTooNew" -> "OutdatedFirmware"
      [] OTHER -> "Unknown"

\* a mapping that has no kind of its own for missing imports
loader_status_error_from_load_status_unknown(load_status) == "Unknown"

loader_status_error_from_preload_status(preload_res) ==
    CASE preload_res = "InvalidFile" -> "InvalidFile"
      [] preload_res = "NotEnoughMemory" -> "OutOfMemory"
      [] preload_res = "InvalidManifest" -> "InvalidManifest"
      [] preload_res = "ApiTooOld" -> "OutdatedApp"
      [] preload_res = "ApiTooNew" -> "OutdatedFirmware"
      [] preload_res = "TargetMismatch" -> "HWMismatch"
      [] OTHER -> "Unknown"

loader_status_error_from_load_status(load_status) ==
    CASE load_status = "MissingImports" -> "MissingImports"
      [] OTHER -> "Unknown"

\* a test that lets a target mismatch through to the map step as well
api_mismatch_or_target(preload_res) ==
    preload_res \in {"ApiTooOld", "ApiTooNew", "TargetMismatch"}

\* preload_res is ApiTooOld or ApiTooNew: the load goes on to the map step
api_mismatch(preload_res) == preload_res \in {"ApiTooOld", "ApiTooNew"}

\* a dialog in which every button continues
dialog_continue_any(res) == TRUE

\* a dialog in which no button continues
dialog_continue_never(res) == FALSE

\* res == DialogMessageButtonRight: the user chose "Continue"
dialog_continue(res) == res = "Right"

\* a check that takes every binary for runnable
flipper_application_is_plugin_never(env) == FALSE

\* flipper_application_is_plugin, as the collaborator answers it
flipper_application_is_plugin(env) == env.plugin

\* flipper_application_alloc_thread: the thread of a mapped binary, named by
\* its manifest
flipper_application_alloc_thread(S, args) ==
    LET t == furi_thread_alloc(S.threads)
    IN  [S EXCEPT !.loader.app.thread = t,
                  !.threads[t] = [state |-> "allocated",
                                  name |-> S.loader.app.fap.name,
                                  appid |-> NoString, signals |-> 0]]

furi_thread_set_appid(S, appid) ==
    [S EXCEPT !.threads[S.loader.app.thread].appid = appid]

\* an exit that publishes LoadFailed but keeps the binary of a failed load
loader_start_external_app_exit_keeps_fap(S, value, error, msg) ==
    LET S1 == IF value # "Ok" THEN furi_pubsub_publish(S, "LoadFailed") ELSE S
    IN  [S |-> S1, value |-> value, error |-> error, msg |-> msg]

\* an exit that frees the binary of a failed load and publishes nothing
loader_start_external_app_exit_silent(S, value, error, msg) ==
    LET S1 == IF value # "Ok"
              THEN [flipper_application_free(S) EXCEPT !.loader.app.fap = NoFap]
              ELSE S
    IN  [S |-> S1, value |-> value, error |-> error, msg |-> msg]

\* the exit of loader_start_external_app: a failed load frees the binary and
\* publishes LoadFailed
loader_start_external_app_exit(S, value, error, msg) ==
    LET S1 == IF value # "Ok"
              THEN furi_pubsub_publish(
                       [flipper_application_free(S) EXCEPT !.loader.app.fap = NoFap],
                       "LoadFailed")
              ELSE S
    IN  [S |-> S1, value |-> value, error |-> error, msg |-> msg]

\* env: what the collaborators answer: preload and load status, the button of
\* the version dialog, whether the binary is a plugin
loader_start_external_app(S, path, args, has_msg, old_msg, flags, env) ==
    LET ok == loader_make_success_status(has_msg, old_msg)
        S1 == furi_pubsub_publish(S, "BeforeLoad")
        S2 == [S1 EXCEPT !.loader.app.fap =
                             [alloc |-> TRUE, path |-> path, name |-> StorageFiles[path]],
                         !.steps = Append(@, "preload")]
        mismatch == api_mismatch(env.preload)
        preload_failed ==
            loader_make_status_error("ErrorInternal", has_msg, ok.msg,
                "Preload failed, " \o path \o ": " \o env.preload)
        S3 == [S2 EXCEPT !.steps = Append(@, "map")]
        load_failed ==
            loader_make_status_error("ErrorInternal", has_msg, ok.msg,
                "Load failed, " \o path \o ": " \o env.load)
        S4 == [S3 EXCEPT !.steps = Append(@, "version_dialog " \o env.preload)]
        declined ==
            loader_make_status_error("ErrorAppStarted", has_msg, ok.msg,
                "Preload failed, " \o path \o ": " \o env.preload)
        S5 == IF mismatch THEN S4 ELSE S3
        not_runnable ==
            loader_make_status_error("ErrorInternal", has_msg, ok.msg,
                "Plugin " \o path \o " is not runnable")
        S6 == furi_thread_set_appid(flipper_application_alloc_thread(S5, args),
                                    path_extract_filename_no_ext(path))
    IN  IF ~mismatch /\ env.preload # "Success"
        THEN loader_start_external_app_exit(S2, preload_failed.value,
                 loader_status_error_from_preload_status(env.preload), preload_failed.msg)
        ELSE IF env.load # "Success"
        THEN IF mismatch
             THEN loader_start_external_app_exit(S3, preload_failed.value,
                      loader_status_error_from_preload_status(env.preload),
                      preload_failed.msg)
             ELSE loader_start_external_app_exit(S3, load_failed.value,
                      loader_status_error_from_load_status(env.load), load_failed.msg)
        ELSE IF mismatch /\ ~dialog_continue(env.button)
        THEN loader_start_external_app_exit(S4, declined.value,
                 loader_status_error_from_preload_status(env.preload), declined.msg)
        ELSE IF flipper_application_is_plugin(env)
        THEN loader_start_external_app_exit(S5, not_runnable.value, "Unknown",
                 not_runnable.msg)
        ELSE loader_start_external_app_exit(loader_start_app_thread(S6, flags),
                 ok.value, "Unknown", ok.msg)

\* ------------------------------------------------------- command handlers

\* a show that allocates a menu whether or not there is one
loader_do_menu_show_replaces(S, settings) ==
    [S EXCEPT !.loader.loader_menu = [alloc |-> TRUE, settings |-> settings],
              !.steps = Append(@, "menu_alloc")]

loader_do_menu_show(S, settings) ==
    IF ~S.loader.loader_menu.alloc
    THEN [S EXCEPT !.loader.loader_menu = [alloc |-> TRUE, settings |-> settings],
                   !.steps = Append(@, "menu_alloc")]
    ELSE S

loader_do_menu_closed(S) ==
    IF S.loader.loader_menu.alloc
    THEN [S EXCEPT !.loader.loader_menu = NoMenu, !.steps = Append(@, "menu_free")]
    ELSE S

\* a browser that reserves the application slot while it is open
loader_do_applications_show_locks(S) ==
    [S EXCEPT !.loader.loader_applications = TRUE,
              !.loader.app.thread = LOADER_MAGIC_THREAD_VALUE]

loader_do_applications_show(S) ==
    IF ~S.loader.loader_applications
    THEN [S EXCEPT !.loader.loader_applications = TRUE]
    ELSE S

loader_do_applications_closed(S) ==
    IF S.loader.loader_applications
    THEN [S EXCEPT !.loader.loader_applications = FALSE]
    ELSE S

\* a lock check that only knows the reservation, not a running application
loader_do_is_locked_magic_only(S) == S.loader.app.thread = LOADER_MAGIC_THREAD_VALUE

\* a lock check that only knows a running application, not the reservation
loader_do_is_locked_running_only(S) ==
    S.loader.app.thread # NULL /\ S.loader.app.thread # LOADER_MAGIC_THREAD_VALUE

\* a lock check that asks the thread in the slot whether it still runs
loader_do_is_locked_while_running(S) ==
    \/ S.loader.app.thread = LOADER_MAGIC_THREAD_VALUE
    \/ \E t \in ThreadIds : S.loader.app.thread = t /\ S.threads[t].state = "running"

loader_do_is_locked(S) == S.loader.app.thread # NULL

\* the thread's appid taken for its name
current_thread_appid(S) == S.threads[S.loader.app.thread].appid

\* the name of the thread in the slot, as furi_thread_get_name gives it
current_thread_name(S) == S.threads[S.loader.app.thread].name

\* a start without the translation of names
loader_translate_name_none(name) == name

\* "Translate app names (mainly for RPC)"
loader_translate_name(name) ==
    IF strncmp_eq(name, "Bad USB", Len("Bad USB")) THEN "Bad KB" ELSE name

\* a message that does not say which application was not found
loader_unknown_app_text_anonymous(name) == "Application not found"

\* the text of the ErrorUnknownApp status
loader_unknown_app_text(name) == "Application \"" \o name \o "\" not found"

\* the step of loader_do_start_by_name that decides the request
loader_resolve(S, name) ==
    LET name1 == loader_translate_name(name)
        app == loader_find_application_by_name(name1)
        ext == loader_find_external_application_by_name(name1)
        name2 == IF ext.found THEN ext.path ELSE name1
    IN  IF loader_do_is_locked(S)
        THEN [kind |-> "locked", name |-> name, app |-> NoApp, flags |-> FlagDefault]
        ELSE IF app.found
        THEN [kind |-> "internal", name |-> name1, app |-> app.app, flags |-> app.app.flags]
        ELSE IF strcmp_eq(name1, LOADER_APPLICATIONS_NAME)
        THEN [kind |-> "applications", name |-> name1, app |-> NoApp, flags |-> FlagDefault]
        ELSE IF storage_file_exists(name2)
        THEN [kind |-> "external", name |-> name2, app |-> NoApp, flags |-> ext.flags]
        ELSE [kind |-> "unknown", name |-> name2, app |-> NoApp, flags |-> ext.flags]

loader_do_start_by_name(S, name, args, has_msg, old_msg, env) ==
    LET ok == loader_make_success_status(has_msg, old_msg)
        r == loader_resolve(S, name)
        locked ==
            IF S.loader.app.thread = LOADER_MAGIC_THREAD_VALUE
            THEN loader_make_status_error("ErrorAppStarted", has_msg, ok.msg,
                     "Loader is locked")
            ELSE loader_make_status_error("ErrorAppStarted", has_msg, ok.msg,
                     "Loader is locked, please close the \"" \o current_thread_name(S)
                         \o "\" first")
        unknown ==
            loader_make_status_error("ErrorUnknownApp", has_msg, ok.msg,
                loader_unknown_app_text(r.name))
    IN  CASE r.kind = "locked" ->
                [S |-> S, value |-> locked.value, error |-> "Unknown", msg |-> locked.msg]
          [] r.kind = "internal" ->
                [S |-> loader_start_internal_app(S, r.app, args),
                 value |-> ok.value, error |-> "Unknown", msg |-> ok.msg]
          [] r.kind = "applications" ->
                [S |-> loader_do_applications_show(S),
                 value |-> ok.value, error |-> "Unknown", msg |-> ok.msg]
          [] r.kind = "external" ->
                loader_start_external_app(S, r.name, args, has_msg, old_msg, r.flags, env)
          [] OTHER ->
                [S |-> S, value |-> unknown.value, error |-> "Unknown", msg |-> unknown.msg]

\* a lock that reserves the slot without looking at it
loader_do_lock_unchecked(S) ==
    [S |-> [S EXCEPT !.loader.app.thread = LOADER_MAGIC_THREAD_VALUE], value |-> TRUE]

\* a lock that refuses an occupied slot but overwrites it all the same
loader_do_lock_overwrites(S) ==
    [S |-> [S EXCEPT !.loader.app.thread = LOADER_MAGIC_THREAD_VALUE],
     value |-> S.loader.app.thread = NULL]

loader_do_lock(S) ==
    IF S.loader.app.thread # NULL
    THEN [S |-> S, value |-> FALSE]
    ELSE [S |-> [S EXCEPT !.loader.app.thread = LOADER_MAGIC_THREAD_VALUE],
          value |-> TRUE]

\* a check that only asks for an occupied slot
loader_do_unlock_check_not_null(S) == S.loader.app.thread # NULL

\* furi_check(loader->app.thread == LOADER_MAGIC_THREAD_VALUE)
loader_do_unlock_check(S) == S.loader.app.thread = LOADER_MAGIC_THREAD_VALUE

\* an unlock that passes the check and leaves the reservation
loader_do_unlock_keeps_lock(S) == S

loader_do_unlock(S) == [S EXCEPT !.loader.app.thread = NULL]

\* a close that publishes Stopped before it has released anything
loader_do_app_closed_stopped_first(S) ==
    LET t == S.loader.app.thread
        S0 == furi_pubsub_publish(furi_thread_join(S, t), "Stopped")
        S2 == IF S0.loader.app.args # NoString
              THEN [S0 EXCEPT !.loader.app.args = NoString,
                              !.steps = Append(@, "args_free")]
              ELSE S0
        S3 == IF S2.loader.app.insomniac THEN furi_hal_power_insomnia_exit(S2) ELSE S2
        S4 == IF S3.loader.app.fap.alloc
              THEN [flipper_application_free(S3) EXCEPT !.loader.app.fap = NoFap]
              ELSE furi_thread_free(S3, t)
    IN  [S4 EXCEPT !.loader.app.thread = NULL, !.steps = Append(@, "slot_clear")]

\* a close that keeps the argument string of the closed application
loader_do_app_closed_keeps_args(S) ==
    LET t == S.loader.app.thread
        S1 == furi_thread_join(S, t)
        S3 == IF S1.loader.app.insomniac THEN furi_hal_power_insomnia_exit(S1) ELSE S1
        S4 == IF S3.loader.app.fap.alloc
              THEN [flipper_application_free(S3) EXCEPT !.loader.app.fap = NoFap]
              ELSE furi_thread_free(S3, t)
        S5 == [S4 EXCEPT !.loader.app.thread = NULL, !.steps = Append(@, "slot_clear")]
    IN  furi_pubsub_publish(S5, "Stopped")

loader_do_app_closed(S) ==
    LET t == S.loader.app.thread
        S1 == furi_thread_join(S, t)
        S2 == IF S1.loader.app.args # NoString
              THEN [S1 EXCEPT !.loader.app.args = NoString,
                              !.steps = Append(@, "args_free")]
              ELSE S1
        S3 == IF S2.loader.app.insomniac THEN furi_hal_power_insomnia_exit(S2) ELSE S2
        S4 == IF S3.loader.app.fap.alloc
              THEN [flipper_application_free(S3) EXCEPT !.loader.app.fap = NoFap]
              ELSE furi_thread_free(S3, t)
        S5 == [S4 EXCEPT !.loader.app.thread = NULL, !.steps = Append(@, "slot_clear")]
    IN  furi_pubsub_publish(S5, "Stopped")

loader_is_application_running(S) ==
    S.loader.app.thread # NULL /\ S.loader.app.thread # LOADER_MAGIC_THREAD_VALUE

\* a signal that is delivered whatever the slot holds
loader_do_signal_always(S, handled) ==
    [S |-> [S EXCEPT !.steps = Append(@, "thread_signal")], value |-> handled]

\* handled: what furi_thread_signal answers
loader_do_signal(S, handled) ==
    IF loader_is_application_running(S)
    THEN [S |-> [S EXCEPT !.threads[S.loader.app.thread].signals = 1,
                          !.steps = Append(@, "thread_signal")],
          value |-> handled]
    ELSE [S |-> S, value |-> FALSE]

\* a query that answers true and leaves the caller's string as it was
loader_do_get_application_name_silent(S, old_name) ==
    [value |-> loader_is_application_running(S), msg |-> old_name]

loader_do_get_application_name(S, old_name) ==
    IF loader_is_application_running(S)
    THEN [value |-> TRUE, msg |-> current_thread_name(S)]
    ELSE [value |-> FALSE, msg |-> old_name]

\* ------------------------------------------------------- error dialogs

\* an error display that has one dialog for every failure
loader_show_gui_error_generic(value, error, name, button) ==
    [dialog |-> IF value = "Ok" THEN "none" ELSE "Error", reset |-> FALSE]

\* loader_show_gui_error: the dialog shown for a start's result, and whether
\* the device is reset; button is what the user presses
loader_show_gui_error(value, error, name, button) ==
    IF value = "ErrorUnknownApp" /\ loader_find_external_application_by_name(name).found
    THEN [dialog |-> "Update needed", reset |-> FALSE]
    ELSE IF value = "ErrorUnknownApp"
    THEN [dialog |-> "err_01", reset |-> FALSE]
    ELSE IF value = "ErrorInternal"
    THEN CASE error = "InvalidFile" -> [dialog |-> "err_02", reset |-> FALSE]
           [] error = "InvalidManifest" -> [dialog |-> "err_03", reset |-> FALSE]
           [] error = "MissingImports" -> [dialog |-> "err_04", reset |-> FALSE]
           [] error = "HWMismatch" -> [dialog |-> "err_05", reset |-> FALSE]
           [] error = "OutdatedApp" -> [dialog |-> "err_06", reset |-> FALSE]
           [] error = "OutdatedFirmware" -> [dialog |-> "err_07", reset |-> FALSE]
           [] error = "OutOfMemory" ->
                [dialog |-> "Out of Memory", reset |-> button = "Right"]
           [] OTHER -> [dialog |-> "Error", reset |-> FALSE]
    ELSE [dialog |-> "none", reset |-> FALSE]

\* ------------------------------------------------------------- the queue

NoMessage ==
    [type |-> "None", api |-> "none", name |-> NoString, args |-> NoString,
     has_msg |-> FALSE, client |-> 0, seq |-> 0]

\* a result variable nobody has written; seq and epoch record, for a written
\* one, the message whose handler wrote it and the value of releases then
Uninit ==
    [written |-> FALSE, seq |-> 0, epoch |-> 0, value |-> "?", error |-> "?",
     bool |-> FALSE, msg |-> CallerText]

\* a put that overwrites a full queue instead of waiting for room
furi_message_queue_put_overwrite(q, m) ==
    [ok |-> TRUE, queue |-> IF Len(q) < QueueCapacity THEN Append(q, m) ELSE << m >>]

\* furi_message_queue_put(queue, message, FuriWaitForever): whether the call can
\* return now (the queue has room) and the queue it leaves
furi_message_queue_put(q, m) == [ok |-> Len(q) < QueueCapacity, queue |-> Append(q, m)]

\* a wait that returns at once
api_lock_never_waits(c) == TRUE

\* the api_lock is unlocked: api_lock_wait_unlock_and_free can return
api_lock_is_unlocked(c) == api_lock[c] = "unlocked"

\* an API in which the detached start waits for its reply as well
SyncApisWithDetached ==
    {"loader_start", "loader_start_with_gui_error", "loader_lock", "loader_is_locked",
     "loader_signal", "loader_get_application_name",
     "loader_start_detached_with_gui_error"}

SyncApis ==
    {"loader_start", "loader_start_with_gui_error", "loader_lock", "loader_is_locked",
     "loader_signal", "loader_get_application_name"}

\* the messages the API functions build
StartRequest(c, api, name, args, has_msg) ==
    [type |-> IF api = "loader_start_detached_with_gui_error"
              THEN "StartByNameDetachedWithGuiError" ELSE "StartByName",
     api |-> api, name |-> name, args |-> args, has_msg |-> has_msg, client |-> c,
     seq |-> 0]

PlainRequest(c, type, api) ==
    [type |-> type, api |-> api, name |-> NoString, args |-> NoString,
     has_msg |-> FALSE, client |-> c, seq |-> 0]

CallbackMessage(type) == PlainRequest(0, type, "callback")

\* the buttons the user can press in the dialog of loader_show_gui_error
GuiButtons(api, value, error) ==
    IF api # "loader_start" /\ value = "ErrorInternal" /\ error = "OutOfMemory"
    THEN DialogButtons ELSE {"Back"}

\* ------------------------------------------------------------------ Init

\* the state when loader_srv is at pc, the device is dev and the menu holds
\* menu_apps
InitWith(pc, dev, menu_apps) ==
    /\ loader = [loader_menu |-> NoMenu, loader_applications |-> FALSE,
                 app |-> [args |-> NoString, thread |-> NULL, insomniac |-> FALSE,
                          fap |-> NoFap],
                 menu_apps |-> menu_apps]
    /\ device = dev
    /\ threads = [t \in ThreadIds |-> NoThread]
    /\ insomnia = 0
    /\ events = << >>
    /\ steps = << >>
    /\ queue = << >>
    /\ srv_pc = pc
    /\ message = NoMessage
    /\ status = [value |-> "none", error |-> "none", msg |-> NoString,
                 name |-> NoString, kind |-> "none", path |-> NoString,
                 env |-> NoEnv]
    /\ dialog = [c \in {0} \cup Clients |-> "none"]
    /\ cpc = [c \in Clients |-> "idle"]
    /\ creq = [c \in Clients |-> NoMessage]
    /\ result = [c \in Clients |-> Uninit]
    /\ api_lock = [c \in Clients |-> "none"]
    /\ callbacks = {}
    /\ halted = "no"
    /\ calls = 0
    /\ nput = 0
    /\ nhandled = 0
    /\ releases = 0

\* loader_srv has returned from loader_alloc at a first start
Init ==
    InitWith("get", loader_alloc(FirstBoot).device, loader_alloc(FirstBoot).menu_apps)

\* loader_srv is about to call loader_alloc on some device
MenuInit == \E dev \in Devices : InitWith("alloc", dev, << >>)

\* ------------------------------------------------------------ the clients

\* a client thread enters an API function with one of the requests reqs: it
\* builds the message on its stack and, for a synchronous call, allocates the
\* api_lock locked
ClientCall(c, reqs, max) ==
    /\ halted = "no"
    /\ cpc[c] = "idle"
    /\ calls < max
    /\ \E m \in reqs :
        /\ creq' = [creq EXCEPT ![c] = m]
        /\ api_lock' = [api_lock EXCEPT ![c] =
                            IF m.api \in SyncApis THEN "locked" ELSE "none"]
    /\ cpc' = [cpc EXCEPT ![c] = "put"]
    /\ result' = [result EXCEPT ![c] = Uninit]
    /\ dialog' = [dialog EXCEPT ![c] = "none"]
    /\ calls' = calls + 1
    /\ UNCHANGED << slotVars, srvVars, threads, queue, callbacks, halted, nput >>

\* furi_message_queue_put returns in the client
ClientPut(c) ==
    /\ halted = "no"
    /\ cpc[c] = "put"
    /\ LET put == furi_message_queue_put(queue, [creq[c] EXCEPT !.seq = nput + 1])
       IN  put.ok /\ queue' = put.queue
    /\ creq' = [creq EXCEPT ![c].seq = nput + 1]
    /\ nput' = nput + 1
    /\ cpc' = [cpc EXCEPT ![c] = IF creq[c].api \in SyncApis THEN "wait" ELSE "idle"]
    /\ UNCHANGED << slotVars, srvVars, threads, dialog, result, api_lock, calls,
                    callbacks, halted >>

\* api_lock_wait_unlock_and_free returns and the client returns its result;
\* loader_start_with_gui_error first shows the error dialog
ClientReturn(c) ==
    /\ halted = "no"
    /\ cpc[c] = "wait"
    /\ api_lock_is_unlocked(c)
    /\ api_lock' = [api_lock EXCEPT ![c] = "none"]
    /\ cpc' = [cpc EXCEPT ![c] = "idle"]
    /\ \E button \in GuiButtons(creq[c].api, result[c].value, result[c].error) :
        LET gui == IF creq[c].api = "loader_start_with_gui_error"
                   THEN loader_show_gui_error(result[c].value, result[c].error,
                                              creq[c].name, button)
                   ELSE [dialog |-> "none", reset |-> FALSE]
        IN  /\ dialog' = [dialog EXCEPT ![c] = gui.dialog]
            /\ halted' = IF gui.reset THEN "reset" ELSE halted
    /\ UNCHANGED << slotVars, srvVars, threads, queue, creq, result, calls, callbacks,
                    nput >>

\* --------------------------------------------- callbacks and the app thread

\* the user closes the menu: loader_menu_closed_callback starts
MenuClosedCallback ==
    /\ halted = "no"
    /\ loader.loader_menu.alloc
    /\ "MenuClosed" \notin callbacks
    /\ callbacks' = callbacks \cup {"MenuClosed"}
    /\ UNCHANGED << slotVars, srvVars, clientVars, threads, queue, dialog, halted, nput >>

\* the user closes the applications browser: loader_applications_closed_callback
ApplicationsClosedCallback ==
    /\ halted = "no"
    /\ loader.loader_applications
    /\ "ApplicationsClosed" \notin callbacks
    /\ callbacks' = callbacks \cup {"ApplicationsClosed"}
    /\ UNCHANGED << slotVars, srvVars, clientVars, threads, queue, dialog, halted, nput >>

\* furi_message_queue_put returns in a view callback
CallbackPut(type) ==
    /\ halted = "no"
    /\ type \in callbacks
    /\ LET put == furi_message_queue_put(queue,
                      [CallbackMessage(type) EXCEPT !.seq = nput + 1])
       IN  put.ok /\ queue' = put.queue
    /\ nput' = nput + 1
    /\ callbacks' = callbacks \ {type}
    /\ UNCHANGED << slotVars, srvVars, clientVars, threads, dialog, halted >>

\* the application returns from its entry point: the thread reaches
\* FuriThreadStateStopped and loader_thread_state_callback starts
AppExit(t) ==
    /\ halted = "no"
    /\ threads[t].state = "running"
    /\ threads' = [threads EXCEPT ![t].state = "stopping"]
    /\ UNCHANGED << slotVars, srvVars, clientVars, queue, dialog, callbacks, halted,
                    nput >>

\* a state callback that sends AppClosed for every state the thread reports
loader_thread_state_callback_every_state(t) ==
    /\ halted = "no"
    /\ threads[t].state = "stopping"
    /\ LET put == furi_message_queue_put(queue,
                      [CallbackMessage("AppClosed") EXCEPT !.seq = nput + 1])
       IN  put.ok /\ queue' = put.queue
    /\ nput' = nput + 1
    /\ UNCHANGED << slotVars, srvVars, clientVars, threads, dialog, callbacks, halted >>

\* furi_message_queue_put returns in loader_thread_state_callback
loader_thread_state_callback(t) ==
    /\ halted = "no"
    /\ threads[t].state = "stopping"
    /\ LET put == furi_message_queue_put(queue,
                      [CallbackMessage("AppClosed") EXCEPT !.seq = nput + 1])
       IN  put.ok /\ queue' = put.queue
    /\ nput' = nput + 1
    /\ threads' = [threads EXCEPT ![t].state = "stopped"]
    /\ UNCHANGED << slotVars, srvVars, clientVars, dialog, callbacks, halted >>

\* ---------------------------------------------------------- the dispatcher

\* loader_srv calls loader_alloc and creates the loader record
SrvAlloc ==
    /\ halted = "no"
    /\ srv_pc = "alloc"
    /\ device' = loader_alloc(device).device
    /\ loader' = [loader EXCEPT !.menu_apps = loader_alloc(device).menu_apps]
    /\ srv_pc' = "get"
    /\ UNCHANGED << insomnia, events, steps, status, releases, message, nhandled,
                    clientVars, threads, queue, dialog, callbacks, halted, nput >>

\* furi_message_queue_get returns in loader_srv
SrvGet ==
    /\ halted = "no"
    /\ srv_pc = "get"
    /\ queue # << >>
    /\ message' = Head(queue)
    /\ queue' = Tail(queue)
    /\ srv_pc' = "handle"
    /\ UNCHANGED << slotVars, clientVars, threads, dialog, callbacks, halted, nput,
                    nhandled >>

Handling(type) == halted = "no" /\ srv_pc = "handle" /\ message.type = type

\* the state a handler starts from
Entry == [State EXCEPT !.steps = << >>]

\* the handler leaves state S and loader_srv goes back to furi_message_queue_get
Done(S) ==
    /\ loader' = S.loader
    /\ threads' = S.threads
    /\ insomnia' = S.insomnia
    /\ events' = S.events
    /\ steps' = S.steps
    /\ srv_pc' = "get"
    /\ message' = NoMessage
    /\ nhandled' = nhandled + 1
    /\ device' = device

\* a failed furi_check or furi_assert halts the system in the handler
Crash ==
    /\ halted' = "crash"
    /\ UNCHANGED << loader, threads, insomnia, events, steps, srvVars, releases,
                    device >>

\* a handler that writes the caller's result and leaves the api_lock locked
ReplyWithoutUnlock(r) ==
    /\ result' = [result EXCEPT ![message.client] = r]
    /\ api_lock' = api_lock

\* the handler writes the caller's result and unlocks the caller's api_lock
Reply(r) ==
    /\ result' = [result EXCEPT ![message.client] = r]
    /\ api_lock' = [api_lock EXCEPT ![message.client] = "unlocked"]

BoolResult(value, msg) ==
    [Uninit EXCEPT !.written = TRUE, !.seq = message.seq, !.epoch = releases,
                   !.bool = value, !.msg = msg]

\* the collaborators' answers a start of name can ask for
EnvsOf(name) == IF loader_resolve(Entry, name).kind = "external" THEN Envs ELSE {NoEnv}

\* what is recorded of the start in the handler
StartStatus(r, env) ==
    [value |-> r.value, error |-> r.error, msg |-> r.msg, name |-> message.name,
     kind |-> loader_resolve(Entry, message.name).kind,
     path |-> loader_resolve(Entry, message.name).name, env |-> env]

HandleStartByName ==
    /\ Handling("StartByName")
    /\ FreeThreadIds(threads) # {}
    /\ \E env \in EnvsOf(message.name) :
        LET r == loader_do_start_by_name(Entry, message.name, message.args,
                     message.has_msg, result[message.client].msg, env)
        IN  /\ Done(r.S)
            /\ status' = StartStatus(r, env)
            /\ Reply([written |-> TRUE, seq |-> message.seq, epoch |-> releases,
                      value |-> r.value, error |-> r.error, bool |-> FALSE,
                      msg |-> r.msg])
    /\ UNCHANGED << queue, dialog, cpc, creq, calls, callbacks, halted, nput, releases >>

HandleStartByNameDetachedWithGuiError ==
    /\ Handling("StartByNameDetachedWithGuiError")
    /\ FreeThreadIds(threads) # {}
    /\ \E env \in EnvsOf(message.name) :
        LET r == loader_do_start_by_name(Entry, message.name, message.args, TRUE, "",
                                         env)
        IN  \E button \in GuiButtons(message.api, r.value, r.error) :
            LET gui == loader_show_gui_error(r.value, r.error, message.name, button)
            IN  /\ Done(r.S)
                /\ status' = StartStatus(r, env)
                /\ dialog' = [dialog EXCEPT ![0] = gui.dialog]
                /\ halted' = IF gui.reset THEN "reset" ELSE halted
    /\ UNCHANGED << queue, clientVars, callbacks, nput, releases >>

HandleShowMenu ==
    /\ Handling("ShowMenu")
    /\ Done(loader_do_menu_show(Entry, FALSE))
    /\ UNCHANGED << queue, status, dialog, clientVars, callbacks, halted, nput, releases >>

HandleShowSettings ==
    /\ Handling("ShowSettings")
    /\ Done(loader_do_menu_show(Entry, TRUE))
    /\ UNCHANGED << queue, status, dialog, clientVars, callbacks, halted, nput, releases >>

HandleMenuClosed ==
    /\ Handling("MenuClosed")
    /\ Done(loader_do_menu_closed(Entry))
    /\ UNCHANGED << queue, status, dialog, clientVars, callbacks, halted, nput, releases >>

HandleIsLocked ==
    /\ Handling("IsLocked")
    /\ Done(Entry)
    /\ Reply(BoolResult(loader_do_is_locked(Entry), CallerText))
    /\ UNCHANGED << queue, status, dialog, cpc, creq, calls, callbacks, halted, nput,
                    releases >>

\* furi_assert(loader->app.thread) guards the join
HandleAppClosed ==
    /\ Handling("AppClosed")
    /\ IF loader.app.thread \in ThreadIds
       THEN Done(loader_do_app_closed(Entry)) /\ halted' = halted
                /\ releases' = releases + 1
       ELSE Crash
    /\ UNCHANGED << queue, status, dialog, clientVars, callbacks, nput >>

HandleLock ==
    /\ Handling("Lock")
    /\ LET r == loader_do_lock(Entry)
       IN  Done(r.S) /\ Reply(BoolResult(r.value, CallerText))
    /\ UNCHANGED << queue, status, dialog, cpc, creq, calls, callbacks, halted, nput,
                    releases >>

HandleUnlock ==
    /\ Handling("Unlock")
    /\ IF loader_do_unlock_check(Entry)
       THEN Done(loader_do_unlock(Entry)) /\ halted' = halted
                /\ releases' = releases + 1
       ELSE Crash
    /\ UNCHANGED << queue, status, dialog, clientVars, callbacks, nput >>

HandleApplicationsClosed ==
    /\ Handling("ApplicationsClosed")
    /\ Done(loader_do_applications_closed(Entry))
    /\ UNCHANGED << queue, status, dialog, clientVars, callbacks, halted, nput, releases >>

HandleSignal ==
    /\ Handling("Signal")
    /\ \E handled \in BOOLEAN :
        LET r == loader_do_signal(Entry, handled)
        IN  Done(r.S) /\ Reply(BoolResult(r.value, CallerText))
    /\ UNCHANGED << queue, status, dialog, cpc, creq, calls, callbacks, halted, nput,
                    releases >>

HandleGetApplicationName ==
    /\ Handling("GetApplicationName")
    /\ LET r == loader_do_get_application_name(Entry, result[message.client].msg)
       IN  Done(Entry) /\ Reply(BoolResult(r.value, r.msg))
    /\ UNCHANGED << queue, status, dialog, cpc, creq, calls, callbacks, halted, nput,
                    releases >>

\* ------------------------------------------------------- the specification

\* the requests of the clients that contend for the application slot: starts
\* of a built-in and of an external application, blocking and detached, lock,
\* unlock and the three queries
SlotNames == {"Bad KB", "Clock"}
SlotRequests(c) ==
    {StartRequest(c, api, n, NoString, TRUE) :
        api \in {"loader_start", "loader_start_detached_with_gui_error"},
        n \in SlotNames}
    \cup
    {PlainRequest(c, "Lock", "loader_lock"),
     PlainRequest(c, "Unlock", "loader_unlock"),
     PlainRequest(c, "IsLocked", "loader_is_locked"),
     PlainRequest(c, "Signal", "loader_signal"),
     [PlainRequest(c, "GetApplicationName", "loader_get_application_name")
         EXCEPT !.has_msg = TRUE]}

\* the application thread, the queue and the handlers of the slot's commands
SlotSteps ==
    \/ \E c \in Clients : ClientPut(c)
    \/ \E c \in Clients : ClientReturn(c)
    \/ \E t \in ThreadIds : AppExit(t)
    \/ \E t \in ThreadIds : loader_thread_state_callback(t)
    \/ SrvGet
    \/ HandleStartByName
    \/ HandleStartByNameDetachedWithGuiError
    \/ HandleIsLocked
    \/ HandleAppClosed
    \/ HandleLock
    \/ HandleUnlock
    \/ HandleSignal
    \/ HandleGetApplicationName

Next ==
    \/ \E c \in Clients : ClientCall(c, SlotRequests(c), MaxCalls)
    \/ SlotSteps

Spec == Init /\ [][Next]_vars

\* one client starts a built-in application, a binary, the applications
\* browser and a name nothing knows, and locks and unlocks the slot; the
\* applications exit and the user closes the browser
EventNames == {"Bad KB", "Clock", LOADER_APPLICATIONS_NAME, "Nonexistent"}
EventRequests(c) ==
    {StartRequest(c, api, n, NoString, FALSE) :
        api \in {"loader_start", "loader_start_detached_with_gui_error"},
        n \in EventNames}
    \cup
    {PlainRequest(c, "Lock", "loader_lock"), PlainRequest(c, "Unlock", "loader_unlock")}

EventNext ==
    \/ ClientCall(1, EventRequests(1), MaxCalls)
    \/ \E c \in Clients : ClientPut(c)
    \/ \E c \in Clients : ClientReturn(c)
    \/ \E t \in ThreadIds : AppExit(t)
    \/ \E t \in ThreadIds : loader_thread_state_callback(t)
    \/ ApplicationsClosedCallback
    \/ CallbackPut("ApplicationsClosed")
    \/ SrvGet
    \/ HandleStartByName
    \/ HandleStartByNameDetachedWithGuiError
    \/ HandleAppClosed
    \/ HandleLock
    \/ HandleUnlock
    \/ HandleApplicationsClosed

EventSpec == Init /\ [][EventNext]_vars

\* one client makes calls in a row, no other client between them: lock,
\* unlock, the query and the start of a built-in application
ScriptRequests(c) ==
    {StartRequest(c, "loader_start", "Bad KB", NoString, FALSE),
     PlainRequest(c, "Lock", "loader_lock"),
     PlainRequest(c, "Unlock", "loader_unlock"),
     PlainRequest(c, "IsLocked", "loader_is_locked")}

ScriptNext ==
    \/ ClientCall(1, ScriptRequests(1), MaxScript)
    \/ \E c \in Clients : ClientPut(c)
    \/ \E c \in Clients : ClientReturn(c)
    \/ \E t \in ThreadIds : AppExit(t)
    \/ \E t \in ThreadIds : loader_thread_state_callback(t)
    \/ SrvGet
    \/ HandleStartByName
    \/ HandleIsLocked
    \/ HandleAppClosed
    \/ HandleLock
    \/ HandleUnlock

ScriptSpec == Init /\ [][ScriptNext]_vars

\* two clients make synchronous calls, starts that can fail in every way
\* among them, and release the slot
FairRequests(c) ==
    {StartRequest(c, "loader_start", n, NoString, FALSE) : n \in SlotNames}
    \cup
    {PlainRequest(c, "Lock", "loader_lock"),
     PlainRequest(c, "Unlock", "loader_unlock"),
     PlainRequest(c, "IsLocked", "loader_is_locked")}

\* the steps of loader_srv, of the client threads and of the state callback
FairSrv ==
    \/ SrvGet
    \/ HandleStartByName
    \/ HandleIsLocked
    \/ HandleAppClosed
    \/ HandleLock
    \/ HandleUnlock
FairClient(c) == ClientPut(c) \/ ClientReturn(c)
FairCallback == \E t \in ThreadIds : loader_thread_state_callback(t)

FairNext ==
    \/ \E c \in Clients : ClientCall(c, FairRequests(c), MaxCalls)
    \/ \E c \in Clients : FairClient(c)
    \/ \E t \in ThreadIds : AppExit(t)
    \/ FairCallback
    \/ FairSrv

\* loader_srv returns from the handler it is in: the collaborators the handler
\* calls answer
SrvReturns == halted = "no" /\ srv_pc = "handle" /\ srv_pc' = "get"

\* the scheduler runs every thread that can run: loader_srv takes the next
\* message and returns from the handler it is in, a furi_message_queue_put
\* returns once the queue has room and keeps it, and a client whose api_lock
\* is unlocked returns; when an application returns from its entry point is
\* up to the application
Fairness ==
    /\ WF_vars(SrvGet)
    /\ WF_srv_pc(SrvReturns)
    /\ \A c \in Clients : WF_vars(FairClient(c))
    /\ WF_vars(FairCallback)

FairSpec == Init /\ [][FairNext]_vars /\ Fairness

\* the names one client asks the loader to start, blocking or detached: names
\* and appids of built-in applications (one appid in two registries, one name
\* also registered as an external application), the legacy name and a longer
\* name that begins with it, the applications browser, a registered external application
\* whose file is on the storage and one whose file is not, the path of a file
\* and a name nothing knows
ResolveNames ==
    {"Bad KB", "bad_kb", "Bad USB", "Bad USB 2", "updater_app", "UpdaterApp",
     LOADER_APPLICATIONS_NAME, "Clock", "Power", "/ext/apps/x.fap", "Nonexistent"}
ResolveRequests(c) ==
    {StartRequest(c, api, n, NoString, TRUE) :
        api \in {"loader_start", "loader_start_detached_with_gui_error"},
        n \in ResolveNames}

ResolveNext ==
    \/ ClientCall(1, ResolveRequests(1), MaxCalls)
    \/ \E c \in Clients : ClientPut(c)
    \/ \E c \in Clients : ClientReturn(c)
    \/ \E t \in ThreadIds : AppExit(t)
    \/ \E t \in ThreadIds : loader_thread_state_callback(t)
    \/ ApplicationsClosedCallback
    \/ CallbackPut("ApplicationsClosed")
    \/ SrvGet
    \/ HandleStartByName
    \/ HandleStartByNameDetachedWithGuiError
    \/ HandleAppClosed
    \/ HandleApplicationsClosed

ResolveSpec == Init /\ [][ResolveNext]_vars

\* one client starts built-in and external applications, insomnia-safe or not,
\* with no argument string, an empty one or a real one, and locks and unlocks
\* the slot; the applications come to their end
LifeNames == {"Bad KB", "Clock", "/ext/apps/x.fap"}
LifeArgs == {NoString, "", "a"}
LifeRequests(c) ==
    {StartRequest(c, "loader_start", n, a, TRUE) : n \in LifeNames, a \in LifeArgs}
    \cup
    {PlainRequest(c, "Lock", "loader_lock"), PlainRequest(c, "Unlock", "loader_unlock")}

LifeNext ==
    \/ ClientCall(1, LifeRequests(1), MaxCalls)
    \/ \E c \in Clients : ClientPut(c)
    \/ \E c \in Clients : ClientReturn(c)
    \/ \E t \in ThreadIds : AppExit(t)
    \/ \E t \in ThreadIds : loader_thread_state_callback(t)
    \/ SrvGet
    \/ HandleStartByName
    \/ HandleAppClosed
    \/ HandleLock
    \/ HandleUnlock

LifeSpec == Init /\ [][LifeNext]_vars

\* one client starts applications through the two API functions that show
\* error dialogs: a built-in application, a binary whose load can fail in
\* every way, a registered external application whose file is missing and a
\* name nothing knows
GuiNames == {"Bad KB", "Clock", "Power", "Nonexistent"}
GuiRequests(c) ==
    {StartRequest(c, api, n, NoString, FALSE) :
        api \in {"loader_start_with_gui_error", "loader_start_detached_with_gui_error"},
        n \in GuiNames}

GuiNext ==
    \/ ClientCall(1, GuiRequests(1), MaxCalls)
    \/ \E c \in Clients : ClientPut(c)
    \/ \E c \in Clients : ClientReturn(c)
    \/ \E t \in ThreadIds : AppExit(t)
    \/ \E t \in ThreadIds : loader_thread_state_callback(t)
    \/ SrvGet
    \/ HandleStartByName
    \/ HandleStartByNameDetachedWithGuiError
    \/ HandleAppClosed

GuiSpec == Init /\ [][GuiNext]_vars

\* one client sends every command of the dispatcher, the user closes the menu
\* and the applications browser, and the application exits: every message type
\* of loader_srv is handled
SrvNames == {"Bad KB", LOADER_APPLICATIONS_NAME}
SrvRequests(c) ==
    {StartRequest(c, api, n, NoString, FALSE) :
        api \in {"loader_start", "loader_start_detached_with_gui_error"},
        n \in SrvNames}
    \cup
    {PlainRequest(c, "ShowMenu", "loader_show_menu"),
     PlainRequest(c, "ShowSettings", "loader_show_settings"),
     PlainRequest(c, "Lock", "loader_lock"),
     PlainRequest(c, "Unlock", "loader_unlock"),
     PlainRequest(c, "IsLocked", "loader_is_locked"),
     PlainRequest(c, "Signal", "loader_signal"),
     [PlainRequest(c, "GetApplicationName", "loader_get_application_name")
         EXCEPT !.has_msg = TRUE]}

\* the handlers of loader_srv
SrvHandlers ==
    \/ HandleStartByName
    \/ HandleStartByNameDetachedWithGuiError
    \/ HandleShowMenu
    \/ HandleShowSettings
    \/ HandleMenuClosed
    \/ HandleIsLocked
    \/ HandleAppClosed
    \/ HandleLock
    \/ HandleUnlock
    \/ HandleApplicationsClosed
    \/ HandleSignal
    \/ HandleGetApplicationName

SrvNext ==
    \/ ClientCall(1, SrvRequests(1), MaxCalls)
    \/ \E c \in Clients : ClientPut(c)
    \/ \E c \in Clients : ClientReturn(c)
    \/ MenuClosedCallback
    \/ ApplicationsClosedCallback
    \/ CallbackPut("MenuClosed")
    \/ CallbackPut("ApplicationsClosed")
    \/ \E t \in ThreadIds : AppExit(t)
    \/ \E t \in ThreadIds : loader_thread_state_callback(t)
    \/ SrvGet
    \/ SrvHandlers

SrvSpec == Init /\ [][SrvNext]_vars

\* loader_srv starts on some device and one client opens the menu, which the
\* user closes
MenuRequests(c) == {PlainRequest(c, "ShowMenu", "loader_show_menu")}

MenuNext ==
    \/ SrvAlloc
    \/ srv_pc # "alloc" /\ ClientCall(1, MenuRequests(1), 1)
    \/ \E c \in Clients : ClientPut(c)
    \/ MenuClosedCallback
    \/ CallbackPut("MenuClosed")
    \/ SrvGet
    \/ HandleShowMenu
    \/ HandleMenuClosed

MenuSpec == MenuInit /\ [][MenuNext]_vars

\* ------------------------------------------------------------- the slot

SlotEmpty == loader.app.thread = NULL
SlotLocked == loader.app.thread = LOADER_MAGIC_THREAD_VALUE
SlotRunning == loader.app.thread \in ThreadIds

\* the threads that have been started and not yet joined
LiveThreads == {t \in ThreadIds : threads[t].state \in {"running", "stopping", "stopped"}}

StartTypes == {"StartByName", "StartByNameDetachedWithGuiError"}

\* this step is the handler of a message of one of the types, run to its end
HandlerStep(types) ==
    halted = "no" /\ srv_pc = "handle" /\ message.type \in types /\ srv_pc' = "get"

\* the handler's caller is told value (a synchronous call's result variable)
Replied(field, value) ==
    /\ result'[message.client].written
    /\ result'[message.client].seq = message.seq
    /\ result'[message.client][field] = value
    /\ api_lock'[message.client] = "unlocked"

SlotUntouched ==
    UNCHANGED << loader, threads, insomnia, events >>

\* C1: single foreground application. In every reachable state at most one
\* application thread is started and not yet joined, and it is the thread the
\* slot holds (so a slot that is Empty or AdministrativelyLocked has no such
\* thread: the slot is emptied only after the join); and every step that starts
\* an application thread is taken with the slot Empty.
C1_OneThread ==
    /\ Cardinality(LiveThreads) <= 1
    /\ \A t \in LiveThreads : loader.app.thread = t
    /\ SlotRunning => loader.app.thread \in LiveThreads
C1_StartFromEmpty ==
    (\E t \in ThreadIds : t \notin LiveThreads /\ t \in LiveThreads') => SlotEmpty
C1_SingleForeground == [](C1_OneThread) /\ [][C1_StartFromEmpty]_vars
\* an application was closed and joined, and another one is running
C1_Witness ==
    /\ \E i \in 1 .. Len(events) : events[i] = "Stopped"
    /\ LiveThreads # {}
    /\ SlotRunning

\* C2: a start (blocking or detached) handled while the slot is not Empty
\* yields ErrorAppStarted; its message is "Loader is locked" when the slot is
\* AdministrativelyLocked and names the running application when it is Running;
\* the slot, the threads, the sleep-inhibit level and the event stream stay as
\* they were, and a blocking caller is told ErrorAppStarted.
C2_RunningName ==
    IF loader.app.fap.alloc THEN StorageFiles[loader.app.fap.path] ELSE "Bad KB"
C2_Message ==
    IF SlotLocked THEN "Loader is locked"
    ELSE "Loader is locked, please close the \"" \o C2_RunningName \o "\" first"
C2_Step ==
    HandlerStep(StartTypes) /\ ~SlotEmpty =>
        /\ status'.value = "ErrorAppStarted"
        /\ status'.msg = C2_Message
        /\ SlotUntouched
        /\ message.type = "StartByName" =>
              Replied("value", "ErrorAppStarted") /\ Replied("msg", C2_Message)
C2_StartWhileOccupied == [][C2_Step]_vars
\* a start was refused with the name of the running built-in application
C2_Witness ==
    /\ SlotRunning
    /\ status.value = "ErrorAppStarted"
    /\ status.msg = "Loader is locked, please close the \"Bad KB\" first"
    /\ events = << "BeforeLoad" >>

\* C3: is_locked() answers true exactly when the slot is not Empty: true when
\* it is AdministrativelyLocked, true when it holds a started application
\* thread, false when it is Empty; and the slot is always in one of the three.
C3_Step ==
    HandlerStep({"IsLocked"}) =>
        /\ SlotEmpty \/ SlotLocked \/ (SlotRunning /\ loader.app.thread \in LiveThreads)
        /\ Replied("bool", SlotLocked \/ SlotRunning)
        /\ Replied("bool", ~SlotEmpty)
        /\ SlotUntouched
C3_IsLocked == [][C3_Step]_vars
\* is_locked() has answered true for a slot that is AdministrativelyLocked
C3_Witness ==
    \E c \in Clients :
        /\ creq[c].type = "IsLocked"
        /\ result[c].written /\ result[c].bool
        /\ SlotLocked /\ releases = 0

\* C4: lock() handled with the slot Empty answers true and leaves the slot
\* AdministrativelyLocked; handled with the slot occupied it answers false and
\* changes nothing; unlock() handled after a successful lock() leaves the
\* slot Empty.
C4_Step ==
    /\ HandlerStep({"Lock"}) /\ SlotEmpty =>
          Replied("bool", TRUE) /\ SlotLocked' /\ UNCHANGED << threads, insomnia, events >>
    /\ HandlerStep({"Lock"}) /\ ~SlotEmpty => Replied("bool", FALSE) /\ SlotUntouched
    /\ HandlerStep({"Unlock"}) /\ SlotLocked =>
          SlotEmpty' /\ UNCHANGED << threads, insomnia, events >>
C4_LockUnlock == [][C4_Step]_vars
\* a lock() was refused while an application runs
C4_Witness ==
    \E c \in Clients :
        /\ creq[c].type = "Lock"
        /\ result[c].written /\ ~result[c].bool
        /\ SlotRunning /\ result[c].epoch = releases

\* C5: unlock() handled when the slot is not AdministrativelyLocked fails the
\* check: the handler never returns (the dispatcher stays in it and the only
\* step it takes is the halt), the slot and the running application are left
\* as they were, and nothing changes once the system has halted.
C5_Step ==
    /\ halted = "no" /\ srv_pc = "handle" /\ message.type = "Unlock" /\ ~SlotLocked =>
          /\ UNCHANGED << loader, insomnia, events >>
          /\ LiveThreads' = LiveThreads
          /\ UNCHANGED << srv_pc, message, nhandled, releases >>
          /\ halted' # halted => halted' = "crash"
    /\ halted = "crash" => UNCHANGED vars
C5_UnlockNotLocked == [][C5_Step]_vars
\* the system has halted on an unlock() of a running application
C5_Witness ==
    /\ halted = "crash"
    /\ message.type = "Unlock"
    /\ SlotRunning /\ LiveThreads # {}

\* C6: sleep-inhibit balance. In every reachable state the number of holds
\* entered and not exited is 1 if the slot runs an application whose registry
\* flags do not declare insomnia-safe and 0 otherwise; no handler enters or
\* exits the hold more than once, only an activation enters it and only the
\* close of the application exits it.
C6_RunningFlags ==
    IF loader.app.fap.alloc
    THEN LET hits == {i \in 1 .. Len(FLIPPER_EXTERNAL_APPS) :
                         FLIPPER_EXTERNAL_APPS[i].path = loader.app.fap.path}
         IN  IF hits = {} THEN FlagDefault
             ELSE FLIPPER_EXTERNAL_APPS[CHOOSE i \in hits : TRUE].flags
    ELSE loader_find_application_by_name(threads[loader.app.thread].name).app.flags
C6_Count(what) == Cardinality({i \in 1 .. Len(steps) : steps[i] = what})
C6_InsomniaBalance ==
    /\ insomnia = IF SlotRunning /\ "InsomniaSafe" \notin C6_RunningFlags THEN 1 ELSE 0
    /\ C6_Count("insomnia_enter") + C6_Count("insomnia_exit") <= 1
    /\ C6_Count("insomnia_enter") = 1 => C6_Count("thread_start") = 1
    /\ C6_Count("insomnia_exit") = 1 => C6_Count("thread_join") = 1
\* an application that held the sleep-inhibit hold has been closed, and an
\* insomnia-safe one runs now without a hold
C6_Witness ==
    /\ events = << "BeforeLoad", "Stopped", "BeforeLoad" >>
    /\ SlotRunning /\ loader.app.fap.alloc
    /\ loader.app.insomniac = FALSE
    /\ insomnia = 0

\* C7: linearizable start/lock. A start of a built-in application or a lock()
\* succeeds exactly if the slot is Empty when its handler runs, and then
\* leaves the slot occupied; so of the requests of different clients answered
\* with no release of the slot between them, no two have succeeded.
C7_Contends(m) == m.type = "Lock" \/ (m.type \in StartTypes /\ m.name = "Bad KB")
C7_Granted(c) ==
    /\ C7_Contends(creq[c]) /\ creq[c].api \in SyncApis
    /\ result[c].written
    /\ IF creq[c].type = "Lock" THEN result[c].bool ELSE result[c].value = "Ok"
C7_AtMostOne ==
    \A c, d \in Clients :
        c # d /\ C7_Granted(c) /\ C7_Granted(d) => result[c].epoch # result[d].epoch
C7_Step ==
    HandlerStep({"Lock"} \cup StartTypes) /\ C7_Contends(message) =>
        /\ ~SlotEmpty'
        /\ message.type = "Lock" => Replied("bool", SlotEmpty)
        /\ message.type = "StartByName" =>
              Replied("value", IF SlotEmpty THEN "Ok" ELSE "ErrorAppStarted")
        /\ message.type \in StartTypes =>
              status'.value = IF SlotEmpty THEN "Ok" ELSE "ErrorAppStarted"
C7_Linearizable == [](C7_AtMostOne) /\ [][C7_Step]_vars
\* two clients raced for the Empty slot: the lock() won, the start lost
C7_Witness ==
    /\ creq[1].type = "Lock" /\ result[1].written /\ result[1].bool
    /\ creq[2].type = "StartByName" /\ creq[2].name = "Bad KB"
    /\ result[2].written /\ result[2].value = "ErrorAppStarted"
    /\ creq[2].seq = 1 + creq[1].seq
    /\ releases = 0

\* C8: command ordering. The queue hands the dispatcher the messages in the
\* order it accepted them, none lost and one at a time: the message in the
\* handler is the next after the ones already handled, the queued ones follow
\* it; and of two blocking calls the one accepted later is never answered
\* before the one accepted earlier.
C8_InService == IF srv_pc = "handle" THEN 1 ELSE 0
C8_InOrder ==
    /\ srv_pc = "handle" => message.seq = nhandled + 1
    /\ \A i \in 1 .. Len(queue) : queue[i].seq = nhandled + C8_InService + i
    /\ nput = nhandled + C8_InService + Len(queue)
    /\ \A c, d \in Clients :
          /\ cpc[c] = "wait" /\ cpc[d] = "wait"
          /\ creq[c].seq < creq[d].seq
          /\ result[d].written
          => result[c].written
\* two blocking starts were handled in the order they were accepted: the
\* first got the slot, the second was refused
C8_Witness ==
    /\ creq[1].type = "StartByName" /\ creq[2].type = "StartByName"
    /\ creq[2].seq = 1 /\ creq[1].seq = 2
    /\ result[2].written /\ result[2].value = "Ok"
    /\ result[1].written /\ result[1].value = "ErrorAppStarted"
    /\ nhandled = 2

\* C9 as stated: a message is in the queue only when the handler of every
\* message accepted before it has finished.
C9_DrainedBeforeAccept ==
    queue # << >> => nhandled = queue[1].seq - 1
\* C9: backpressure. The queue never holds more than one message, and a
\* message is in the queue only when every message accepted before it has been
\* taken out of the queue by the dispatcher: at most one earlier message is
\* not handled yet, and the dispatcher is in its handler.
C9_Backpressure ==
    /\ Len(queue) <= 1
    /\ queue # << >> =>
          /\ queue[1].seq = nput
          /\ nhandled + C8_InService = nput - 1
\* the queue is full with the message of one client while the other client
\* is blocked in its put: its message has not been accepted
C9_Witness ==
    /\ Len(queue) = 1
    /\ \E c, d \in Clients :
          /\ c # d
          /\ queue[1].seq = creq[c].seq /\ cpc[c] # "put"
          /\ cpc[d] = "put"

\* C10: a blocking call returns its own handler's result. Whenever a client
\* can return from its wait, or has returned, the result variable it reads has
\* been written by the handler of the message it enqueued, and that handler
\* has finished.
C10_OwnResult ==
    \A c \in Clients :
        \/ cpc[c] = "wait" /\ api_lock_is_unlocked(c)
        \/ cpc[c] = "idle" /\ creq[c].api \in SyncApis
        => /\ result[c].written
           /\ result[c].seq = creq[c].seq
           /\ result[c].seq <= nhandled
\* both clients have returned from blocking calls, each with its own result
C10_Witness ==
    /\ \A c \in Clients :
          cpc[c] = "idle" /\ creq[c].api \in SyncApis /\ result[c].written
    /\ creq[1].type = "GetApplicationName" /\ result[1].bool
    /\ creq[2].type = "StartByName" /\ result[2].value = "Ok"

\* the clients inside loader_start_detached_with_gui_error, or back from it
Detached(c) == creq[c].api = "loader_start_detached_with_gui_error"

\* C11 as stated: a detached start never blocks its caller. A caller inside
\* loader_start_detached_with_gui_error always finds room in the queue.
C11_NeverBlocks ==
    \A c \in Clients : Detached(c) /\ cpc[c] = "put" => Len(queue) < QueueCapacity
\* C11: a detached start does not wait for its start to be handled. Its caller
\* has no api_lock and never waits for a reply; it can leave its put whenever
\* the queue has room, and is back in its own code as soon as the message is
\* accepted, the handler not having run; the start is handled by the dispatcher
\* when every message accepted before it has been handled.
C11_NoReplyWait ==
    /\ \A c \in Clients :
          Detached(c) =>
             /\ cpc[c] # "wait" /\ api_lock[c] = "none" /\ ~result[c].written
             /\ cpc[c] = "put" /\ Len(queue) < QueueCapacity /\ halted = "no"
                   => ENABLED ClientPut(c)
    /\ srv_pc = "handle" /\ message.type = "StartByNameDetachedWithGuiError"
          => message.seq = nhandled + 1
C11_Accepted ==
    \A c \in Clients :
        Detached(c) /\ cpc[c] = "put" /\ cpc'[c] # "put" =>
            /\ cpc'[c] = "idle"
            /\ queue' = Append(queue, creq'[c])
            /\ creq'[c].seq = nput + 1 /\ nhandled' = nhandled
            /\ nhandled < nput + 1
C11_Detached == [](C11_NoReplyWait) /\ [][C11_Accepted]_vars
\* the caller of a detached start is back in its own code while the dispatcher
\* is still in the handler of that start
C11_Witness ==
    \E c \in Clients :
        /\ Detached(c) /\ cpc[c] = "idle"
        /\ srv_pc = "handle" /\ message.client = c /\ message.seq = creq[c].seq
        /\ message.type = "StartByNameDetachedWithGuiError"

\* ------------------------------------------------------- external loads

\* this step is a start handler that ran loader_start_external_app to its end
ExternalLoad == HandlerStep(StartTypes) /\ status'.kind = "external"

\* the handler of this step was given an error_message string
HasMsg == message.type = "StartByNameDetachedWithGuiError" \/ message.has_msg

\* how often the handler of this step took the step whose name begins with
\* prefix
Did(prefix) ==
    Cardinality({i \in 1 .. Len(steps') :
                    /\ Len(steps'[i]) >= Len(prefix)
                    /\ SubSeq(steps'[i], 1, Len(prefix)) = prefix})

\* the handler of this step started no thread and left the slot Empty, the
\* binary released
NothingLaunched ==
    /\ threads' = threads /\ LiveThreads' = {} /\ Did("thread_start") = 0
    /\ SlotEmpty' /\ loader'.app.fap = NoFap /\ insomnia' = insomnia

\* C12: version-mismatch decline. An external load whose preload answers
\* ApiTooOld or ApiTooNew, whose map succeeds and whose dialog is left by any
\* button but "Continue" returns ErrorAppStarted with the kind of the mismatch
\* (OutdatedApp for too old, OutdatedFirmware for too new); no thread is
\* started, the binary is freed and the slot stays Empty.
C12_Step ==
    /\ ExternalLoad
    /\ status'.env.preload \in MismatchStatuses
    /\ status'.env.load = "Success"
    /\ status'.env.button # "Right"
    => /\ status'.value = "ErrorAppStarted"
       /\ status'.error = IF status'.env.preload = "ApiTooOld"
                          THEN "OutdatedApp" ELSE "OutdatedFirmware"
       /\ Did("version_dialog") = 1
       /\ Did("fap_free") = 1
       /\ NothingLaunched
       /\ message.type = "StartByName" =>
             /\ Replied("value", "ErrorAppStarted")
             /\ Replied("error", status'.error)
C12_Decline == [][C12_Step]_vars
\* the user has cancelled the dialog of a binary that is too old
C12_Witness ==
    /\ status.kind = "external"
    /\ status.env.preload = "ApiTooOld" /\ status.env.load = "Success"
    /\ status.env.button = "Left"
    /\ status.value = "ErrorAppStarted" /\ status.error = "OutdatedApp"
    /\ SlotEmpty /\ events = << "BeforeLoad", "LoadFailed" >>

\* C13 as stated: whenever the map step is attempted and answers
\* MissingImports, with or without a version mismatch flagged by the preload,
\* the start returns ErrorInternal with kind MissingImports, without a prompt
\* and without starting the binary.
C13_AlwaysMissingImportsStep ==
    ExternalLoad /\ Did("map") = 1 /\ status'.env.load = "MissingImports"
    => /\ status'.value = "ErrorInternal"
       /\ status'.error = "MissingImports"
       /\ Did("version_dialog") = 0
       /\ NothingLaunched
C13_AlwaysMissingImports == [][C13_AlwaysMissingImportsStep]_vars
\* C13: a failed map step. When the preload succeeded and the map answers
\* MissingImports the start returns ErrorInternal with kind MissingImports and
\* a "Load failed" message; when the preload flagged ApiTooOld or ApiTooNew and
\* the map fails, for whatever reason, the start returns ErrorInternal with the
\* kind of the mismatch and a "Preload failed" message. In both cases there is
\* no prompt and the binary is not started.
C13_Step ==
    ExternalLoad /\ Did("map") = 1 /\ status'.env.load # "Success"
    => /\ status'.value = "ErrorInternal"
       /\ Did("version_dialog") = 0
       /\ NothingLaunched
       /\ status'.env.preload = "Success" =>
             /\ status'.error = IF status'.env.load = "MissingImports"
                                THEN "MissingImports" ELSE "Unknown"
             /\ HasMsg => status'.msg = "Load failed, " \o status'.path \o ": "
                                            \o status'.env.load
       /\ status'.env.preload = "ApiTooOld" => status'.error = "OutdatedApp"
       /\ status'.env.preload = "ApiTooNew" => status'.error = "OutdatedFirmware"
       /\ status'.env.preload # "Success" /\ HasMsg =>
             status'.msg = "Preload failed, " \o status'.path \o ": "
                               \o status'.env.preload
C13_MapFailure == [][C13_Step]_vars
\* a binary with missing imports and no mismatch was refused as MissingImports
C13_Witness ==
    /\ status.kind = "external"
    /\ status.env.preload = "Success" /\ status.env.load = "MissingImports"
    /\ status.value = "ErrorInternal" /\ status.error = "MissingImports"
    /\ status.msg = "Load failed, /ext/apps/Tools/clock.fap: MissingImports"
    /\ SlotEmpty
\* a binary that is too new and has missing imports was refused as
\* OutdatedFirmware
C13_MismatchWitness ==
    /\ status.kind = "external"
    /\ status.env.preload = "ApiTooNew" /\ status.env.load = "MissingImports"
    /\ status.value = "ErrorInternal" /\ status.error = "OutdatedFirmware"

\* the table of preload failures and their kinds
C14_Table ==
    [p \in PreloadStatuses \ {"Success"} |->
        IF p = "InvalidFile" THEN "InvalidFile"
        ELSE IF p = "NotEnoughMemory" THEN "OutOfMemory"
        ELSE IF p = "InvalidManifest" THEN "InvalidManifest"
        ELSE IF p = "ApiTooOld" THEN "OutdatedApp"
        ELSE IF p = "ApiTooNew" THEN "OutdatedFirmware"
        ELSE IF p = "TargetMismatch" THEN "HWMismatch"
        ELSE "Unknown"]
C14_Listed == PreloadStatuses \ {"Success", "UnspecifiedError"}
\* C14: the mapping of preload failures. The kind of every preload status is
\* the one of the table, the six listed statuses have six different kinds none
\* of which is Unknown, and any other status has kind Unknown; a start whose
\* preload fails with a status other than a version mismatch returns
\* ErrorInternal with exactly that kind and a "Preload failed" message, the map
\* step not attempted; and whenever a start reports a failed preload the kind
\* it carries is the one of the table.
C14_Step ==
    ExternalLoad =>
       /\ \A p \in DOMAIN C14_Table :
             loader_status_error_from_preload_status(p) = C14_Table[p]
       /\ \A p, q \in C14_Listed :
             p # q => loader_status_error_from_preload_status(p)
                         # loader_status_error_from_preload_status(q)
       /\ \A p \in C14_Listed : loader_status_error_from_preload_status(p) # "Unknown"
       /\ status'.env.preload \notin {"Success"} \cup MismatchStatuses =>
             /\ status'.value = "ErrorInternal"
             /\ status'.error = C14_Table[status'.env.preload]
             /\ Did("map") = 0
             /\ NothingLaunched
             /\ HasMsg => status'.msg = "Preload failed, " \o status'.path \o ": "
                                            \o status'.env.preload
             /\ message.type = "StartByName" =>
                   /\ Replied("value", "ErrorInternal")
                   /\ Replied("error", C14_Table[status'.env.preload])
       /\ HasMsg /\ Len(status'.msg) >= 14 /\ SubSeq(status'.msg, 1, 14) = "Preload failed"
             => /\ status'.env.preload # "Success"
                /\ status'.error = C14_Table[status'.env.preload]
C14_PreloadMapping == [][C14_Step]_vars
\* a binary built for another target was refused as HWMismatch
C14_Witness ==
    /\ status.kind = "external"
    /\ status.env.preload = "TargetMismatch"
    /\ status.value = "ErrorInternal" /\ status.error = "HWMismatch"
    /\ status.msg = "Preload failed, /ext/apps/Tools/clock.fap: TargetMismatch"

\* C15: the version dialog. The dialog is shown, once, exactly when the preload
\* answered ApiTooOld or ApiTooNew and the map then succeeded; after any other
\* preload failure, a target mismatch included, the load fails at once: no
\* dialog, no map step, no thread, ErrorInternal.
C15_Step ==
    ExternalLoad =>
       /\ Did("preload") = 1
       /\ Did("version_dialog") =
             IF status'.env.preload \in MismatchStatuses /\ status'.env.load = "Success"
             THEN 1 ELSE 0
       /\ Did("version_dialog") = 1 => Did("map") = 1
       /\ status'.env.preload \notin {"Success"} \cup MismatchStatuses =>
             /\ Did("version_dialog") = 0
             /\ Did("map") = 0
             /\ NothingLaunched
             /\ status'.value = "ErrorInternal"
C15_Prompt == [][C15_Step]_vars
\* the dialog has been shown for a binary that is too new; a binary built for
\* another target is refused without one
C15_Witness ==
    /\ status.kind = "external"
    /\ status.env.preload = "ApiTooNew" /\ status.env.load = "Success"
    /\ \E i \in 1 .. Len(steps) : steps[i] = "version_dialog ApiTooNew"
C15_TargetWitness ==
    /\ status.kind = "external"
    /\ status.env.preload = "TargetMismatch"
    /\ steps = << "publish BeforeLoad", "preload", "fap_free", "publish LoadFailed" >>

\* the state the same start leaves when the preload reports no mismatch
C16_NoMismatch ==
    loader_do_start_by_name(Entry, message.name, message.args, TRUE, "", NoEnv).S
\* C16: accepting the version dialog. When the user chooses "Continue" and the
\* binary is not a plugin, the start returns Ok, the thread of the binary is
\* started and the slot holds it, the binary stays loaded and only BeforeLoad is
\* published: the loader, the threads, the sleep-inhibit level and the events
\* are those the same binary leaves when its preload reports no mismatch.
C16_Step ==
    /\ ExternalLoad
    /\ status'.env.preload \in MismatchStatuses
    /\ status'.env.load = "Success"
    /\ status'.env.button = "Right"
    /\ ~status'.env.plugin
    => /\ status'.value = "Ok"
       /\ HasMsg => status'.msg = "App started"
       /\ Did("version_dialog") = 1 /\ Did("thread_start") = 1
       /\ SlotRunning'
       /\ threads'[loader'.app.thread].state = "running"
       /\ threads'[loader'.app.thread].name = StorageFiles[status'.path]
       /\ LiveThreads' = {loader'.app.thread}
       /\ loader'.app.fap.alloc /\ loader'.app.fap.path = status'.path
       /\ events' = Append(events, "BeforeLoad")
       /\ loader' = C16_NoMismatch.loader
       /\ threads' = C16_NoMismatch.threads
       /\ insomnia' = C16_NoMismatch.insomnia
       /\ events' = C16_NoMismatch.events
       /\ message.type = "StartByName" => Replied("value", "Ok")
C16_Accept == [][C16_Step]_vars
\* a binary that is too old runs after the user chose "Continue"
C16_Witness ==
    /\ status.kind = "external"
    /\ status.env.preload = "ApiTooOld" /\ status.env.button = "Right"
    /\ status.value = "Ok"
    /\ SlotRunning /\ threads[loader.app.thread].state = "running"
    /\ threads[loader.app.thread].name = "Clock"

\* C17: a plugin is not runnable. An external load that reaches the
\* runnability check (the preload succeeded, or reported a mismatch the user
\* accepted, and the map succeeded) with a binary that is a plugin returns
\* ErrorInternal with kind Unknown and the message "Plugin <path> is not
\* runnable"; no thread is started, the binary is freed, the slot stays Empty.
C17_Step ==
    /\ ExternalLoad
    /\ status'.env.plugin
    /\ status'.env.load = "Success"
    /\ \/ status'.env.preload = "Success"
       \/ status'.env.preload \in MismatchStatuses /\ status'.env.button = "Right"
    => /\ status'.value = "ErrorInternal"
       /\ status'.error = "Unknown"
       /\ HasMsg => status'.msg = "Plugin " \o status'.path \o " is not runnable"
       /\ Did("fap_free") = 1
       /\ NothingLaunched
       /\ message.type = "StartByName" =>
             Replied("value", "ErrorInternal") /\ Replied("error", "Unknown")
C17_Plugin == [][C17_Step]_vars
\* a plugin that is too new was refused after the user chose "Continue"
C17_Witness ==
    /\ status.kind = "external"
    /\ status.env.plugin
    /\ status.env.preload = "ApiTooNew" /\ status.env.button = "Right"
    /\ status.value = "ErrorInternal" /\ status.error = "Unknown"
    /\ status.msg = "Plugin /ext/apps/Tools/clock.fap is not runnable"
    /\ SlotEmpty
\* a plugin with no mismatch was refused
C17_PlainWitness ==
    /\ status.kind = "external"
    /\ status.env.plugin /\ status.env.preload = "Success"
    /\ status.value = "ErrorInternal" /\ status.error = "Unknown"

\* C18: a failed external load. Whenever loader_start_external_app returns
\* anything but Ok, the binary has been freed, once, LoadFailed has been
\* published, once, after BeforeLoad, no thread has been allocated or started
\* and the slot is Empty when the handler returns; a load that returns Ok
\* publishes no LoadFailed and keeps its binary.
C18_Step ==
    /\ ExternalLoad /\ status'.value # "Ok" =>
          /\ loader'.app.fap = NoFap
          /\ Did("fap_free") = 1
          /\ Did("publish LoadFailed") = 1
          /\ events' = events \o << "BeforeLoad", "LoadFailed" >>
          /\ NothingLaunched
          /\ \A t \in ThreadIds : threads'[t].state = "free"
    /\ ExternalLoad /\ status'.value = "Ok" =>
          /\ Did("publish LoadFailed") = 0 /\ Did("fap_free") = 0
          /\ loader'.app.fap.alloc
C18_FailedLoad == [][C18_Step]_vars
\* a load has failed in its map step
C18_Witness ==
    /\ status.kind = "external"
    /\ status.env.preload = "Success" /\ status.env.load = "UnspecifiedError"
    /\ status.value = "ErrorInternal"
    /\ events = << "BeforeLoad", "LoadFailed" >>
    /\ SlotEmpty /\ loader.app.fap = NoFap

\* --------------------------------------------------------- name resolution

\* the names and appids of the built-in applications
NamesOf(list) == UNION {{list[i].name, list[i].appid} : i \in 1 .. Len(list)}
BuiltInNames ==
    NamesOf(FLIPPER_APPS) \cup NamesOf(FLIPPER_SYSTEM_APPS) \cup NamesOf(FLIPPER_DEBUG_APPS)

\* the registered external applications and their paths, the first list first
PathsOf(list) == {<< list[i].name, list[i].path >> : i \in 1 .. Len(list)}
RegisteredPaths ==
    [n \in {e[1] : e \in PathsOf(FLIPPER_EXTERNAL_APPS) \cup PathsOf(FLIPPER_SETTINGS_APPS)} |->
        IF \E e \in PathsOf(FLIPPER_EXTERNAL_APPS) : e[1] = n
        THEN (CHOOSE e \in PathsOf(FLIPPER_EXTERNAL_APPS) : e[1] = n)[2]
        ELSE (CHOOSE e \in PathsOf(FLIPPER_SETTINGS_APPS) : e[1] = n)[2]]

\* the file a name stands for: the path of a registered external application,
\* or the name itself
FileOf(name) == IF name \in DOMAIN RegisteredPaths THEN RegisteredPaths[name] ELSE name

BeginsWith(name, prefix) ==
    Len(name) >= Len(prefix) /\ SubSeq(name, 1, Len(prefix)) = prefix

\* C19 as stated: a name other than the legacy name that is no built-in name
\* or appid, is not the applications browser and stands for no file on the
\* storage is refused, from an Empty slot, with ErrorUnknownApp and the message
\* 'Application "<name>" not found' where <name> is the name requested.
C19_RequestedNameStep ==
    /\ HandlerStep(StartTypes) /\ SlotEmpty
    /\ message.name # "Bad USB"
    /\ message.name \notin BuiltInNames
    /\ message.name # LOADER_APPLICATIONS_NAME
    /\ FileOf(message.name) \notin DOMAIN StorageFiles
    => /\ status'.value = "ErrorUnknownApp"
       /\ HasMsg => status'.msg = "Application \"" \o message.name \o "\" not found"
       /\ SlotUntouched
C19_RequestedName == [][C19_RequestedNameStep]_vars
\* C19: an unknown application. A name that does not begin with the legacy
\* name, is no built-in name or appid, is not the applications browser and
\* stands for no file on the storage is refused, from an Empty slot, with
\* ErrorUnknownApp and the message 'Application "<name>" not found', where
\* <name> is the registered path when the name requested is a registered
\* external application and the name requested otherwise; the slot stays
\* Empty, nothing is started and no event is published.
C19_Step ==
    /\ HandlerStep(StartTypes) /\ SlotEmpty
    /\ ~BeginsWith(message.name, "Bad USB")
    /\ message.name \notin BuiltInNames
    /\ message.name # LOADER_APPLICATIONS_NAME
    /\ FileOf(message.name) \notin DOMAIN StorageFiles
    => /\ status'.value = "ErrorUnknownApp"
       /\ status'.error = "Unknown"
       /\ HasMsg => status'.msg = "Application \"" \o FileOf(message.name)
                                      \o "\" not found"
       /\ SlotUntouched /\ SlotEmpty'
       /\ Did("publish") = 0 /\ steps' = << >>
       /\ message.type = "StartByName" =>
             /\ Replied("value", "ErrorUnknownApp")
             /\ Replied("msg", status'.msg)
C19_UnknownApp == [][C19_Step]_vars
\* start("Nonexistent") was refused with the name requested
C19_Witness ==
    /\ status.name = "Nonexistent"
    /\ status.value = "ErrorUnknownApp"
    /\ status.msg = "Application \"Nonexistent\" not found"
    /\ SlotEmpty /\ events = << >>
\* the start of a registered external application whose file is missing was
\* refused with its path
C19_PathWitness ==
    /\ status.name = "Power"
    /\ status.value = "ErrorUnknownApp"
    /\ status.msg = "Application \"/ext/apps/Settings/power.fap\" not found"
    /\ SlotEmpty /\ events = << >>

\* the state a start of the name "Bad KB" leaves
C20_BadKB ==
    loader_do_start_by_name(Entry, "Bad KB", message.args, TRUE, "", NoEnv).S
\* C20: the legacy name. A start of "Bad USB" from an Empty slot is a start of
\* the built-in application "Bad KB": it returns Ok, the thread it starts has
\* the name and the appid of that registry entry and is the one the slot
\* holds, no file is loaded, and the loader, the threads, the sleep-inhibit
\* level and the events are those a start of "Bad KB" leaves.
C20_Step ==
    HandlerStep(StartTypes) /\ SlotEmpty /\ message.name = "Bad USB"
    => /\ status'.value = "Ok"
       /\ HasMsg => status'.msg = "App started"
       /\ SlotRunning'
       /\ threads'[loader'.app.thread] =
             [state |-> "running", name |-> FLIPPER_APPS[1].name,
              appid |-> FLIPPER_APPS[1].appid, signals |-> 0]
       /\ FLIPPER_APPS[1].name = "Bad KB"
       /\ LiveThreads' = {loader'.app.thread}
       /\ loader'.app.fap = NoFap /\ Did("preload") = 0
       /\ events' = Append(events, "BeforeLoad")
       /\ loader' = C20_BadKB.loader /\ threads' = C20_BadKB.threads
       /\ insomnia' = C20_BadKB.insomnia /\ events' = C20_BadKB.events
       /\ message.type = "StartByName" => Replied("value", "Ok")
C20_Alias == [][C20_Step]_vars
\* start("Bad USB") has started the built-in application "Bad KB"
C20_Witness ==
    /\ status.name = "Bad USB" /\ status.value = "Ok" /\ status.kind = "internal"
    /\ SlotRunning
    /\ threads[loader.app.thread].name = "Bad KB"
    /\ threads[loader.app.thread].state = "running"

\* the name the lookups see
C21_Name == IF BeginsWith(message.name, "Bad USB") THEN "Bad KB" ELSE message.name
\* the built-in registries in the order they are searched, and the entries
\* that answer a name
C21_Registry == FLIPPER_APPS \o FLIPPER_SYSTEM_APPS \o FLIPPER_DEBUG_APPS
C21_Hits(n) ==
    {i \in 1 .. Len(C21_Registry) : C21_Registry[i].name = n \/ C21_Registry[i].appid = n}
C21_First(n) == C21_Registry[CHOOSE i \in C21_Hits(n) : \A j \in C21_Hits(n) : i <= j]
\* the one outcome of the start of a name
C21_Outcome(n) ==
    IF C21_Hits(n) # {} THEN "built-in"
    ELSE IF n = LOADER_APPLICATIONS_NAME THEN "browser"
    ELSE IF FileOf(n) \in DOMAIN StorageFiles THEN "external"
    ELSE "unknown"
\* C21: precedence of the resolution. A start handled with the slot Empty has
\* exactly the outcome of the first step that applies to the name (after the
\* translation of the legacy name): the first built-in entry, in the order
\* ordinary, system, debug, whose name or appid is the name is started; else the
\* applications browser is opened; else the file the name stands for (the
\* path of a registered external application, or the name itself), if it is on
\* the storage, is handed to loader_start_external_app; else ErrorUnknownApp.
\* The outcome is a function of the name and the storage alone.
C21_Step ==
    HandlerStep(StartTypes) /\ SlotEmpty =>
       /\ C21_Outcome(C21_Name) = "built-in" =>
             /\ status'.value = "Ok"
             /\ SlotRunning'
             /\ threads'[loader'.app.thread].name = C21_First(C21_Name).name
             /\ threads'[loader'.app.thread].appid = C21_First(C21_Name).appid
             /\ Did("preload") = 0 /\ loader'.app.fap = NoFap
             /\ loader'.loader_applications = loader.loader_applications
       /\ C21_Outcome(C21_Name) = "browser" =>
             /\ status'.value = "Ok"
             /\ loader'.loader_applications
             /\ Did("preload") = 0 /\ Did("thread_start") = 0 /\ SlotEmpty'
       /\ C21_Outcome(C21_Name) = "external" =>
             /\ Did("preload") = 1
             /\ status'.path = FileOf(C21_Name)
             /\ status'.value \in {"Ok", "ErrorInternal", "ErrorAppStarted"}
             /\ status'.value = "Ok" =>
                   SlotRunning' /\ loader'.app.fap.path = FileOf(C21_Name)
             /\ loader'.loader_applications = loader.loader_applications
       /\ C21_Outcome(C21_Name) = "unknown" =>
             /\ status'.value = "ErrorUnknownApp"
             /\ steps' = << >> /\ SlotUntouched
       /\ status'.kind = CASE C21_Outcome(C21_Name) = "built-in" -> "internal"
                           [] C21_Outcome(C21_Name) = "browser" -> "applications"
                           [] OTHER -> C21_Outcome(C21_Name)
C21_OrderWitness ==
    /\ status.name = "bad_kb" /\ status.value = "Ok"
    /\ SlotRunning /\ threads[loader.app.thread].name = "Bad KB"

\* C22: the applications browser. A start of the reserved name handled with
\* the slot Empty returns Ok and leaves the browser open, but starts no thread,
\* publishes nothing, takes no sleep-inhibit hold and leaves the slot Empty, so
\* that loader_do_is_locked is false and a later start is not refused; and the
\* browser, once open, is closed by the handler of ApplicationsClosed only.
C22_Step ==
    /\ HandlerStep(StartTypes) /\ SlotEmpty /\ message.name = LOADER_APPLICATIONS_NAME =>
          /\ status'.value = "Ok"
          /\ loader'.loader_applications
          /\ loader'.app = loader.app /\ SlotEmpty'
          /\ ~loader_do_is_locked([loader |-> loader'])
          /\ threads' = threads /\ LiveThreads' = {}
          /\ insomnia' = insomnia /\ events' = events
          /\ steps' = << >>
          /\ message.type = "StartByName" => Replied("value", "Ok")
    /\ loader.loader_applications /\ ~loader'.loader_applications =>
          HandlerStep({"ApplicationsClosed"})
    /\ HandlerStep(StartTypes) /\ SlotEmpty /\ loader.loader_applications =>
          /\ status'.kind # "locked"
          /\ C21_Outcome(C21_Name) = "built-in" => status'.value = "Ok" /\ SlotRunning'
C22_Browser == [][C22_Step]_vars
\* an application was started while the browser was open
C22_Witness ==
    /\ loader.loader_applications
    /\ status.value = "Ok" /\ status.kind = "internal"
    /\ SlotRunning /\ LiveThreads # {}
\* the browser was opened and has been closed by its own command
C22_ClosedWitness ==
    /\ ~loader.loader_applications
    /\ status.kind = "applications" /\ status.value = "Ok"
    /\ nhandled = 2 /\ SlotEmpty

\* ------------------------------------------------------------ activation

\* the position of the first step of that name in the handler of this step,
\* 0 when it took none
StepAt(name) ==
    IF \E i \in 1 .. Len(steps') : steps'[i] = name
    THEN CHOOSE i \in 1 .. Len(steps') :
            steps'[i] = name /\ \A j \in 1 .. i - 1 : steps'[j] # name
    ELSE 0

\* this step starts an application thread
Activation == \E t \in ThreadIds : t \notin LiveThreads /\ t \in LiveThreads'

\* C23: BeforeLoad before the start. Every step in which an application thread
\* begins to run, for a built-in or an external application, is a start handler
\* that published exactly one BeforeLoad, and published it before it started
\* the thread; and no thread is started by a handler that published none.
C23_Step ==
    /\ Activation =>
          /\ HandlerStep(StartTypes)
          /\ Did("publish BeforeLoad") = 1
          /\ Did("thread_start") = 1
          /\ StepAt("publish BeforeLoad") = 1
          /\ StepAt("publish BeforeLoad") < StepAt("thread_start")
          /\ events' = Append(events, "BeforeLoad")
    /\ HandlerStep(StartTypes) /\ Did("publish BeforeLoad") = 0 =>
          Did("thread_start") = 0 /\ LiveThreads' = LiveThreads
C23_BeforeLoadFirst == [][C23_Step]_vars
\* a built-in application runs, BeforeLoad published first
C23_Witness ==
    /\ SlotRunning /\ loader.app.fap = NoFap
    /\ threads[loader.app.thread].state = "running"
    /\ steps = << "publish BeforeLoad", "insomnia_enter", "thread_start" >>
\* an external application runs, BeforeLoad published first
C23_ExternalWitness ==
    /\ SlotRunning /\ loader.app.fap.alloc
    /\ threads[loader.app.thread].state = "running"
    /\ steps = << "publish BeforeLoad", "preload", "map", "thread_start" >>

\* ------------------------------------------------------------------ close

\* the steps of a close of the application in the slot, in their order
C24_Steps ==
    << "thread_join" >>
    \o (IF loader.app.args # NoString THEN << "args_free" >> ELSE << >>)
    \o (IF loader.app.insomniac THEN << "insomnia_exit" >> ELSE << >>)
    \o (IF loader.app.fap.alloc THEN << "fap_free" >> ELSE << "thread_free" >>)
    \o << "slot_clear", "publish Stopped" >>
\* C24: the order of a close. The handler of AppClosed joins the thread, then
\* frees the argument string if there is one, leaves the insomnia mode if the
\* application had entered it, frees the binary if there is one (and with it,
\* or else on its own, the thread), then sets app.thread to NULL, and publishes
\* Stopped last: when Stopped is published the slot is Empty and the
\* arguments, the insomnia hold, the binary and the thread are released.
C24_Step ==
    HandlerStep({"AppClosed"}) =>
       /\ SlotRunning
       /\ steps' = C24_Steps
       /\ StepAt("thread_join") = 1
       /\ StepAt("slot_clear") = Len(steps') - 1
       /\ StepAt("publish Stopped") = Len(steps')
       /\ events' = Append(events, "Stopped")
       /\ SlotEmpty'
       /\ loader'.app.args = NoString /\ loader'.app.fap = NoFap
       /\ threads'[loader.app.thread] = NoThread /\ LiveThreads' = {}
       /\ insomnia' = insomnia - (IF loader.app.insomniac THEN 1 ELSE 0)
       /\ insomnia' = 0
C24_CloseOrder == [][C24_Step]_vars
\* a built-in application with arguments and an insomnia hold was closed
C24_Witness ==
    /\ steps = << "thread_join", "args_free", "insomnia_exit", "thread_free",
                  "slot_clear", "publish Stopped" >>
    /\ SlotEmpty /\ events = << "BeforeLoad", "Stopped" >>
\* an external application with an insomnia hold was closed
C24_ExternalWitness ==
    /\ steps = << "thread_join", "insomnia_exit", "fap_free", "slot_clear",
                  "publish Stopped" >>
    /\ SlotEmpty /\ events = << "BeforeLoad", "Stopped" >>

\* C25: ownership of the binary. In every state between two handlers, a slot
\* that is Empty or AdministrativelyLocked holds neither a loaded binary nor a
\* stored argument string; a loaded binary is held only while the slot holds
\* the started thread of that binary, and a stored argument string only while
\* it holds the thread of a built-in application.
C25_Owned ==
    /\ SlotEmpty \/ SlotLocked => loader.app.fap = NoFap /\ loader.app.args = NoString
    /\ loader.app.fap.alloc =>
          /\ SlotRunning /\ loader.app.thread \in LiveThreads
          /\ loader.app.fap.path \in DOMAIN StorageFiles
          /\ threads[loader.app.thread].name = StorageFiles[loader.app.fap.path]
          /\ loader.app.args = NoString
    /\ loader.app.args # NoString =>
          /\ SlotRunning /\ loader.app.thread \in LiveThreads
          /\ threads[loader.app.thread].name \in BuiltInNames
\* the slot was locked after an external application had run and was closed
C25_Witness ==
    /\ SlotLocked
    /\ events = << "BeforeLoad", "Stopped" >>
    /\ status.kind = "external" /\ status.value = "Ok"
    /\ loader.app.fap = NoFap
\* a built-in application runs with its argument string stored
C25_ArgsWitness ==
    /\ SlotRunning /\ loader.app.args = "a" /\ loader.app.fap = NoFap

\* ----------------------------------------------------------------- queries

\* C26: signal. The handler of Signal delivers the signal to a thread only if
\* the slot holds a started application thread, and then to that thread and
\* once, answering what furi_thread_signal answers; with the slot Empty or
\* AdministrativelyLocked it delivers nothing and answers false; it never
\* changes the slot, the set of live threads, the sleep-inhibit level or the
\* events.
C26_Step ==
    HandlerStep({"Signal"}) =>
       /\ loader' = loader /\ insomnia' = insomnia /\ events' = events
       /\ LiveThreads' = LiveThreads
       /\ \A t \in ThreadIds :
             threads'[t] # threads[t] =>
                /\ SlotRunning /\ t = loader.app.thread /\ t \in LiveThreads
                /\ threads'[t] = [threads[t] EXCEPT !.signals = 1]
       /\ (Did("thread_signal") = 1) = SlotRunning
       /\ Did("thread_signal") <= 1
       /\ SlotEmpty \/ SlotLocked =>
             /\ Replied("bool", FALSE)
             /\ threads' = threads /\ steps' = << >>
       /\ result'[message.client].bool => SlotRunning
C26_Signal == [][C26_Step]_vars
\* a signal was delivered to the running application and handled by it
C26_Witness ==
    \E c \in Clients :
        /\ creq[c].type = "Signal" /\ result[c].written /\ result[c].bool
        /\ SlotRunning /\ threads[loader.app.thread].signals = 1
\* a signal sent to a locked slot was answered false
C26_LockedWitness ==
    \E c \in Clients :
        /\ creq[c].type = "Signal" /\ result[c].written /\ ~result[c].bool
        /\ SlotLocked /\ releases = 0

\* the name of the thread in the slot: the registry name of a built-in
\* application, the manifest name of a binary
C27_ThreadName ==
    IF loader.app.fap.alloc THEN StorageFiles[loader.app.fap.path]
    ELSE C21_First(threads[loader.app.thread].appid).name
\* the appid the thread in the slot was tagged with: the registry appid of a
\* built-in application, the file name without its extension of a binary
C27_AppId ==
    IF loader.app.fap.alloc THEN path_extract_filename_no_ext(loader.app.fap.path)
    ELSE threads[loader.app.thread].appid
\* C27 as stated: the name query answers true with the appid of the running
\* application if the slot holds a started thread, and false with the
\* caller's string unchanged otherwise.
C27_AppIdStep ==
    HandlerStep({"GetApplicationName"}) =>
       /\ SlotRunning => Replied("bool", TRUE) /\ Replied("msg", C27_AppId)
       /\ ~SlotRunning => Replied("bool", FALSE) /\ Replied("msg", CallerText)
C27_TaggedIdentifier == [][C27_AppIdStep]_vars
\* C27: the name query. It answers true with the name of the thread in the
\* slot (the registry display name of a built-in application, the name the
\* thread of a binary was created with), not its appid, if the slot holds a
\* started thread; with the slot Empty or AdministrativelyLocked it answers
\* false and leaves the caller's string unchanged; it changes nothing.
C27_Step ==
    HandlerStep({"GetApplicationName"}) =>
       /\ SlotRunning =>
             /\ Replied("bool", TRUE)
             /\ Replied("msg", C27_ThreadName)
             /\ threads[loader.app.thread].appid = C27_AppId
             /\ C27_ThreadName # C27_AppId
       /\ ~SlotRunning => Replied("bool", FALSE) /\ Replied("msg", CallerText)
       /\ result'[message.client].bool = SlotRunning
       /\ SlotUntouched /\ steps' = << >>
C27_ThreadNameReturned == [][C27_Step]_vars
\* the query has answered "Bad KB" for the application tagged "bad_kb"
C27_Witness ==
    \E c \in Clients :
        /\ creq[c].type = "GetApplicationName"
        /\ result[c].written /\ result[c].bool /\ result[c].msg = "Bad KB"
        /\ SlotRunning /\ threads[loader.app.thread].appid = "bad_kb"
\* the query has answered false for an Empty slot
C27_NoneWitness ==
    \E c \in Clients :
        /\ creq[c].type = "GetApplicationName"
        /\ result[c].written /\ ~result[c].bool /\ result[c].msg = CallerText
        /\ SlotEmpty /\ nhandled = 1

\* ------------------------------------------------------------ error dialogs

\* the dialog of each result
C28_Dialog(value, error, name) ==
    CASE value \in {"Ok", "ErrorAppStarted"} -> "none"
      [] value = "ErrorUnknownApp" ->
            IF name \in DOMAIN RegisteredPaths THEN "Update needed" ELSE "err_01"
      [] value = "ErrorInternal" /\ error = "InvalidFile" -> "err_02"
      [] value = "ErrorInternal" /\ error = "InvalidManifest" -> "err_03"
      [] value = "ErrorInternal" /\ error = "MissingImports" -> "err_04"
      [] value = "ErrorInternal" /\ error = "HWMismatch" -> "err_05"
      [] value = "ErrorInternal" /\ error = "OutdatedApp" -> "err_06"
      [] value = "ErrorInternal" /\ error = "OutdatedFirmware" -> "err_07"
      [] value = "ErrorInternal" /\ error = "OutOfMemory" -> "Out of Memory"
      [] OTHER -> "Error"
\* this step is the return of client c from loader_start_with_gui_error
C28_Return(c) ==
    /\ creq[c].api = "loader_start_with_gui_error"
    /\ cpc[c] = "wait" /\ cpc'[c] = "idle"
\* C28: the dialogs of the starts with error display. A blocking start shows,
\* when its result is back, and a detached start shows, in its handler, the
\* dialog of the result: none for Ok and for ErrorAppStarted (a declined
\* version dialog included), one for ErrorUnknownApp, and for ErrorInternal
\* the dialog of the kind, each of the six kinds its own, OutOfMemory the
\* dialog with the reboot button, any other kind the generic one; the device
\* is reset only in a step that shows the OutOfMemory dialog.
C28_Step ==
    /\ \A c \in Clients :
          C28_Return(c) =>
             /\ dialog'[c] = C28_Dialog(result[c].value, result[c].error, creq[c].name)
             /\ result[c].value \in {"Ok", "ErrorAppStarted"} => dialog'[c] = "none"
             /\ result[c].value \in {"ErrorUnknownApp", "ErrorInternal"} =>
                   dialog'[c] # "none"
             /\ halted' = "reset" => dialog'[c] = "Out of Memory"
    /\ HandlerStep({"StartByNameDetachedWithGuiError"}) =>
          /\ dialog'[0] = C28_Dialog(status'.value, status'.error, message.name)
          /\ status'.value \in {"Ok", "ErrorAppStarted"} => dialog'[0] = "none"
          /\ status'.value \in {"ErrorUnknownApp", "ErrorInternal"} => dialog'[0] # "none"
          /\ halted' = "reset" => dialog'[0] = "Out of Memory"
    /\ halted = "no" /\ halted' = "reset" =>
          \/ HandlerStep({"StartByNameDetachedWithGuiError"})
          \/ \E c \in Clients : C28_Return(c)
C28_Dialogs == [][C28_Step]_vars
\* a blocking start that ran out of memory has shown the dialog with the
\* reboot button and the user has taken it
C28_Witness ==
    /\ halted = "reset"
    /\ dialog[1] = "Out of Memory"
    /\ result[1].value = "ErrorInternal" /\ result[1].error = "OutOfMemory"
\* a detached start whose version dialog was declined has shown no error
C28_DeclinedWitness ==
    /\ status.value = "ErrorAppStarted" /\ status.error = "OutdatedApp"
    /\ status.env.button = "Back" /\ status.env.load = "Success"
    /\ creq[1].api = "loader_start_detached_with_gui_error" /\ nhandled = 1
    /\ dialog[0] = "none"
\* the start of a registered application whose file is missing has shown
\* "Update needed"
C28_UpdateWitness ==
    /\ result[1].value = "ErrorUnknownApp" /\ dialog[1] = "Update needed"

\* ------------------------------------------------------------ no reentrancy

\* the AppClosed messages that are in the queue or in their handler
C29_Pending ==
    Cardinality({i \in 1..Len(queue) : queue[i].type = "AppClosed"})
       + (IF srv_pc = "handle" /\ message.type = "AppClosed" THEN 1 ELSE 0)
C29_Stopped == {t \in ThreadIds : threads[t].state = "stopped"}
\* every application thread that has reached the stopped state and is not
\* joined yet has one AppClosed in the queue or in its handler, and there is
\* no other AppClosed; a handler never waits for the queue, whatever is in it
C29_OncePerApp ==
    /\ C29_Pending = Cardinality(C29_Stopped)
    /\ C29_Stopped \subseteq {loader.app.thread}
    /\ srv_pc = "handle" /\ halted = "no" => ENABLED SrvHandlers
\* this step puts a message of the type at the end of the queue
C29_Enqueues(type) ==
    /\ nput' = nput + 1
    /\ queue' # << >>
    /\ queue'[Len(queue')].seq = nput'
    /\ queue'[Len(queue')].type = type
C29_Step ==
    /\ srv_pc = "handle" /\ srv_pc' # srv_pc =>
          queue' = queue /\ nput' = nput /\ callbacks' = callbacks
    /\ srv_pc = "handle" /\ halted' # halted => queue' = queue /\ nput' = nput
    /\ queue' # queue /\ Len(queue') <= Len(queue) =>
          srv_pc = "get" /\ srv_pc' = "handle" /\ queue' = Tail(queue)
    /\ nput' # nput => srv_pc' = srv_pc /\ message' = message
    /\ C29_Enqueues("AppClosed") =>
          \E t \in ThreadIds :
             /\ threads[t].state = "stopping" /\ threads'[t].state = "stopped"
             /\ t = loader.app.thread
             /\ \A u \in ThreadIds \ {t} : threads'[u] = threads[u]
    /\ \A t \in ThreadIds :
          threads[t].state # "stopped" /\ threads'[t].state = "stopped" =>
             threads[t].state = "stopping" /\ C29_Enqueues("AppClosed")
\* C29: no reentrancy. A step of a handler of loader_srv leaves the queue as
\* it is (it puts nothing in it and takes nothing from it) and can be taken
\* whatever the queue holds; the queue is read only by the dispatcher between
\* two handlers; an AppClosed message is put in the queue only by the step in
\* which the slot's application thread reaches the stopped state, which
\* happens once for a started thread, so that the AppClosed messages not yet
\* handled are as many as the threads stopped and not yet joined.
C29_NoReentrancy == [](C29_OncePerApp) /\ [][C29_Step]_vars
\* the application has exited and its one AppClosed is in the queue while the
\* dispatcher is in another handler
C29_Witness ==
    /\ srv_pc = "handle" /\ message.type # "AppClosed"
    /\ Len(queue) = QueueCapacity /\ queue[1].type = "AppClosed"
    /\ C29_Stopped = {loader.app.thread}
\* the AppClosed of an application is in its handler
C29_HandledWitness ==
    /\ srv_pc = "handle" /\ message.type = "AppClosed"
    /\ C29_Stopped = {loader.app.thread} /\ queue = << >>

\* ------------------------------------------------------------ the menu file

\* this step is loader_alloc on a normal boot and it has read the entries of
\* a menu file of version 1
C30_Read ==
    /\ srv_pc = "alloc" /\ srv_pc' = "get"
    /\ device.normal_boot /\ device'.sd_ok /\ device'.menu_file.exists
    /\ device'.menu_file.lines # << >>
    /\ Head(device'.menu_file.lines) = "MenuAppList Version 1"
\* loader_make_menu_file has written the file in this step
C30_Written == device'.menu_file # device.menu_file
\* the entries of the file, one a line, line ends left out, and the entries
\* read back
C30_Line(raw) == furi_string_remove_all(raw, "\r")
C30_Entries ==
    [i \in 1 .. Len(device'.menu_file.lines) - 1 |->
        C30_Line(device'.menu_file.lines[i + 1])]
C30_ReadBack == [i \in 1 .. Len(loader'.menu_apps) |-> loader'.menu_apps[i].exe]
\* C30 as stated: a menu file of version 1, written by the loader or found on
\* the storage, is read back as the sequence of its entries.
C30_IdenticalStep == C30_Read => C30_ReadBack = C30_Entries
C30_Identical == [][C30_IdenticalStep]_vars
\* an entry the menu can show: the path of a binary whose name and icon can be
\* read, or, when no file has that name, a name of FLIPPER_APPS or of
\* FLIPPER_EXTERNAL_APPS
C30_Usable(entry) ==
    \/ entry \in DOMAIN StorageFiles
    \/ /\ entry \notin UnreadableFiles
       /\ \E i \in 1 .. Len(FLIPPER_APPS) : FLIPPER_APPS[i].name = entry
    \/ /\ entry \notin UnreadableFiles
       /\ \E i \in 1 .. Len(FLIPPER_EXTERNAL_APPS) : FLIPPER_EXTERNAL_APPS[i].name = entry
\* C30: round trip of the menu file. A menu file of version 1 is read back as
\* the sequence of those of its entries the menu can show, in the order of the
\* file, each as often as the file has it and under the text of its line, a
\* binary labelled with the name in its manifest and a registry name with
\* itself; the other entries are left out. The file loader_make_menu_file has
\* written with no list of the earlier firmware to copy is read back entry
\* for entry, and a file found with a good header is left as it is.
C30_Step ==
    C30_Read =>
       /\ C30_ReadBack = SelectSeq(C30_Entries, C30_Usable)
       /\ \A i \in 1 .. Len(loader'.menu_apps) :
             loader'.menu_apps[i].label =
                IF loader'.menu_apps[i].exe \in DOMAIN StorageFiles
                THEN StorageFiles[loader'.menu_apps[i].exe]
                ELSE loader'.menu_apps[i].exe
       /\ C30_Written /\ ~device.legacy_file.exists =>
             C30_ReadBack = C30_Entries /\ C30_Entries # << >>
       /\ ~C30_Written => device' = device
C30_RoundTrip == [][C30_Step]_vars
\* loader_alloc has written the menu file, copying the list of the earlier
\* firmware, and the entry copied is not in the menu it has read back
C30_Witness ==
    /\ srv_pc = "get"
    /\ device.menu_file.exists /\ device.menu_file.lines # << >>
    /\ Head(device.menu_file.lines) = "MenuAppList Version 1"
    /\ device.menu_file.lines[Len(device.menu_file.lines)] = "/ext/apps/gone.fap"
    /\ loader.menu_apps # << >>
    /\ Len(loader.menu_apps) = Len(device.menu_file.lines) - 2
\* a file of two entries found on the storage has been read back entry for
\* entry
C30_FullWitness ==
    /\ srv_pc = "get"
    /\ device.menu_file = FileWith(<< "MenuAppList Version 1", "/ext/apps/x.fap", "Bad KB" >>)
    /\ Len(loader.menu_apps) = 2
    /\ loader.menu_apps[1].exe = "/ext/apps/x.fap" /\ loader.menu_apps[2].exe = "Bad KB"

\* ------------------------------------------------- the menu file's header

\* this step is loader_alloc
C31_Alloc == srv_pc = "alloc" /\ srv_pc' = "get"
\* the menu file is there and its first line is the header of version 0 or 1
C31_GoodHeader ==
    /\ device.menu_file.exists
    /\ device.menu_file.lines # << >>
    /\ Head(device.menu_file.lines) \in {"MenuAppList Version 0", "MenuAppList Version 1"}
\* the entry lines of the menu file after the step
C31_Body ==
    IF device'.menu_file.lines = << >> THEN << >> ELSE Tail(device'.menu_file.lines)
\* the names of the two registries of the menu, in registry order
C31_Registry ==
    [i \in 1 .. Len(FLIPPER_APPS) + Len(FLIPPER_EXTERNAL_APPS) |->
        IF i <= Len(FLIPPER_APPS) THEN FLIPPER_APPS[i].name
        ELSE FLIPPER_EXTERNAL_APPS[i - Len(FLIPPER_APPS)].name]
\* what is shown of the file after the step is in the menu
C31_Loaded ==
    [i \in 1 .. Len(loader'.menu_apps) |-> loader'.menu_apps[i].exe]
       = SelectSeq([i \in 1 .. Len(C31_Body) |-> C30_Line(C31_Body[i])], C30_Usable)
\* C31 as stated, for a normal boot with a storage that works: a menu file
\* without a good header is replaced by a file of version 1 whose entries are
\* names of the registry in registry order and nothing else (all of them, or
\* all but the last), and that file is loaded; a file with a good header is
\* left alone.
C31_FromRegistryStep ==
    C31_Alloc /\ device.normal_boot /\ device.sd_ok =>
       /\ device.menu_file.exists /\ ~C31_GoodHeader =>
             /\ device'.menu_file.exists
             /\ device'.menu_file.lines # << >>
             /\ Head(device'.menu_file.lines) = "MenuAppList Version 1"
             /\ C31_Body \in {C31_Registry,
                               SubSeq(C31_Registry, 1, Len(C31_Registry) - 1)}
             /\ C31_Loaded
       /\ C31_GoodHeader => device'.menu_file = device.menu_file
C31_FromRegistry == [][C31_FromRegistryStep]_vars
\* C31: the header of the menu file at startup. On a normal boot with a
\* storage that works, a menu file that is missing, is empty, has a first line
\* that is not the header, or names a version above 1, is replaced by a file
\* of version 1 that holds the names of FLIPPER_APPS in registry order, the
\* names of FLIPPER_EXTERNAL_APPS in registry order but the last, and then the
\* lines of the list file of the earlier firmware, which is removed; the menu
\* is loaded from the new file. A file with the header of version 0 or 1 is
\* neither removed nor rewritten, and on another boot or without storage
\* nothing is written and the menu stays empty.
C31_Step ==
    C31_Alloc =>
       /\ device.normal_boot /\ device.sd_ok /\ ~C31_GoodHeader =>
             /\ device'.menu_file.exists
             /\ device'.menu_file.lines # << >>
             /\ Head(device'.menu_file.lines) = "MenuAppList Version 1"
             /\ C31_Body =
                   SubSeq(C31_Registry, 1, Len(C31_Registry) - 1)
                      \o device.legacy_file.lines
             /\ ~device'.legacy_file.exists
             /\ C31_Loaded
       /\ device.normal_boot /\ device.sd_ok /\ C31_GoodHeader =>
             device' = device /\ C31_Loaded
       /\ ~(device.normal_boot /\ device.sd_ok) =>
             device' = device /\ loader'.menu_apps = << >>
C31_Regenerated == [][C31_Step]_vars
\* loader_alloc has replaced a menu file and copied the list of the earlier
\* firmware into the new one, which it has loaded
C31_Witness ==
    /\ srv_pc = "get"
    /\ device.menu_file =
          FileWith(<< "MenuAppList Version 1", "Bad KB", "Clock", "/ext/apps/x.fap" >>)
    /\ ~device.legacy_file.exists
    /\ Len(loader.menu_apps) = 3
\* a menu file of version 0 has been loaded and is still there
C31_KeptWitness ==
    /\ srv_pc = "get"
    /\ device.menu_file = FileWith(<< "MenuAppList Version 0", "Clock" >>)
    /\ Len(loader.menu_apps) = 1

\* ------------------------------------------------------------------ progress

\* client c is in a synchronous call: its message is in its hands or sent
C32_Waiting(c) == cpc[c] \in {"put", "wait"} /\ creq[c].api \in SyncApis
\* client c has its reply
C32_Answered(c) == cpc[c] = "idle" /\ result[c].written /\ result[c].seq = creq[c].seq
\* the application thread has returned from its entry point
C32_Terminated == \E t \in ThreadIds : threads[t].state \in {"stopping", "stopped"}
\* the slot has been released and Stopped is the last event published
C32_Closed ==
    /\ SlotEmpty /\ LiveThreads = {}
    /\ events # << >> /\ events[Len(events)] = "Stopped"
\* a failed start has been answered before: the dispatcher has gone on
C32_AfterFailure(c) ==
    /\ C32_Waiting(c)
    /\ status.value \in {"ErrorInternal", "ErrorUnknownApp", "ErrorAppStarted"}
\* the guards of the handler loader_srv is in hold: the message is of a type
\* that has a handler and a start finds a thread to allocate
C32_HandlerCanRun ==
    srv_pc = "handle" /\ halted = "no" =>
       /\ message.type \in {"StartByName", "IsLocked", "AppClosed", "Lock", "Unlock"}
       /\ message.type = "StartByName" => FreeThreadIds(threads) # {}
\* C32: progress. Under a fair scheduler, and unless the system halts on a
\* failed check, a handler that has been entered can always run to its end,
\* every synchronous call gets its reply, a call made after a
\* failed start included, and an application thread that has returned from its
\* entry point is joined: the slot becomes Empty and Stopped is published.
C32_Progress ==
    /\ [](C32_HandlerCanRun)
    /\ \A c \in Clients : C32_Waiting(c) ~> (C32_Answered(c) \/ halted # "no")
    /\ \A c \in Clients : C32_AfterFailure(c) ~> (C32_Answered(c) \/ halted # "no")
    /\ C32_Terminated ~> (C32_Closed \/ halted # "no")
\* a client has its reply to a call it made after a start had failed
C32_Witness ==
    /\ halted = "no"
    /\ \E c \in Clients : C32_Answered(c) /\ creq[c].seq = 2
    /\ status.value = "ErrorInternal"
    /\ nhandled = 2
\* an application has exited while another client's message was in the queue,
\* and its thread has been joined
C32_ClosedWitness ==
    /\ halted = "no" /\ C32_Closed /\ nhandled = 3

\* ------------------------------------------------------------ event stream

\* the events published so far are pairs: a BeforeLoad, then a LoadFailed or a
\* Stopped; the last BeforeLoad has no partner yet exactly while its
\* application holds the slot
C33_Pairs ==
    /\ \A i \in 1 .. Len(events) :
          IF i % 2 = 1 THEN events[i] = "BeforeLoad"
          ELSE events[i] \in {"LoadFailed", "Stopped"}
    /\ srv_pc = "get" => (Len(events) % 2 = 1 <=> SlotRunning)
\* what a step publishes
C33_Published == SubSeq(events', Len(events) + 1, Len(events'))
\* the events are only added to, and each step adds what its handler stands
\* for: a start that launches adds BeforeLoad, a load that fails adds
\* BeforeLoad and LoadFailed, a close adds Stopped
C33_Grows ==
    /\ Len(events') >= Len(events) /\ SubSeq(events', 1, Len(events)) = events
    /\ C33_Published # << >> =>
          \/ HandlerStep(StartTypes) /\ C33_Published = << "BeforeLoad" >> /\ SlotRunning'
          \/ /\ HandlerStep(StartTypes) /\ status'.kind = "external"
             /\ C33_Published = << "BeforeLoad", "LoadFailed" >> /\ SlotEmpty'
          \/ HandlerStep({"AppClosed"}) /\ C33_Published = << "Stopped" >>
\* a start refused because the slot is taken or the name is unknown, a lock, an
\* unlock, and the opening and the closing of the applications browser
\* publish nothing
C33_Quiet ==
    /\ HandlerStep(StartTypes)
          /\ status'.kind \in {"locked", "unknown", "applications"} => events' = events
    /\ HandlerStep({"Lock", "Unlock", "ApplicationsClosed"}) => events' = events
\* C33 as stated: the events are pairs, and every start answered
\* ErrorAppStarted or ErrorUnknownApp, every lock, every unlock and the
\* applications browser publish nothing.
C33_RejectedQuietStep ==
    /\ C33_Grows /\ C33_Quiet
    /\ HandlerStep(StartTypes)
          /\ status'.value \in {"ErrorAppStarted", "ErrorUnknownApp"} => events' = events
C33_RejectedQuiet == [](C33_Pairs) /\ [][C33_RejectedQuietStep]_vars
\* C33: well-formed event stream. The events published are pairs, each
\* BeforeLoad followed by one LoadFailed or one Stopped before the next
\* BeforeLoad, and no LoadFailed or Stopped comes without its BeforeLoad. A
\* start refused because the slot is taken (ErrorAppStarted) or the name is
\* unknown (ErrorUnknownApp), a lock, an unlock and the applications browser
\* publish nothing; a start answered ErrorAppStarted because the user left the
\* version dialog publishes BeforeLoad and LoadFailed.
C33_Step ==
    /\ C33_Grows /\ C33_Quiet
    /\ HandlerStep(StartTypes)
          /\ status'.value \in {"ErrorAppStarted", "ErrorUnknownApp"}
          /\ events' # events
       => /\ status'.value = "ErrorAppStarted" /\ status'.kind = "external"
          /\ status'.env.preload \in MismatchStatuses /\ status'.env.button # "Right"
          /\ C33_Published = << "BeforeLoad", "LoadFailed" >>
C33_WellFormed == [](C33_Pairs) /\ [][C33_Step]_vars
\* a load has failed and an application has then run and been closed
C33_Witness ==
    /\ events = << "BeforeLoad", "LoadFailed", "BeforeLoad", "Stopped" >>
    /\ SlotEmpty /\ srv_pc = "get"
\* a start has been refused for the lock and has published nothing
C33_LockedWitness ==
    /\ SlotLocked /\ status.kind = "locked" /\ status.value = "ErrorAppStarted"
    /\ events = << >>
\* the user has left the version dialog: ErrorAppStarted and a pair of events
C33_DeclinedWitness ==
    /\ status.value = "ErrorAppStarted" /\ status.kind = "external"
    /\ events = << "BeforeLoad", "LoadFailed" >>

\* ------------------------------------------------------ termination window

\* the application thread has returned from its entry point and the handler
\* of its AppClosed has not run yet
C34_Window == \E t \in ThreadIds : threads[t].state \in {"stopping", "stopped"}
\* in the window the slot still holds the thread that has stopped
C34_StillRunning ==
    C34_Window =>
       /\ SlotRunning
       /\ threads[loader.app.thread].state \in {"stopping", "stopped"}
       /\ LiveThreads = {loader.app.thread}
\* C34: termination window. From the moment the application thread stops to
\* the handler of its AppClosed the slot is Running: a query handled then
\* answers locked, a lock answers false, a start, blocking or detached,
\* answers ErrorAppStarted, none of them changes the slot or publishes an
\* event, and no thread is started before the stopped one has been joined.
C34_Step ==
    /\ C34_Window /\ HandlerStep({"IsLocked"}) => Replied("bool", TRUE) /\ SlotUntouched
    /\ C34_Window /\ HandlerStep({"Lock"}) => Replied("bool", FALSE) /\ SlotUntouched
    /\ C34_Window /\ HandlerStep(StartTypes) =>
          /\ status'.value = "ErrorAppStarted" /\ status'.kind = "locked"
          /\ SlotUntouched
          /\ message.type = "StartByName" => Replied("value", "ErrorAppStarted")
    /\ C34_Window /\ ~HandlerStep({"AppClosed"}) => loader' = loader
    /\ Activation => ~C34_Window
C34_TerminationWindow == [](C34_StillRunning) /\ [][C34_Step]_vars
\* a start has been refused while the AppClosed of the stopped application
\* waited in the queue
C34_Witness ==
    /\ C34_Window /\ SlotRunning
    /\ status.value = "ErrorAppStarted" /\ status.kind = "locked"
    /\ nhandled = 2
    /\ queue # << >> /\ queue[1].type = "AppClosed"
\* a lock has been refused after the application thread had stopped
C34_LockWitness ==
    /\ C34_Window /\ nhandled = 2
    /\ \E c \in Clients :
          creq[c].type = "Lock" /\ result[c].written /\ ~result[c].bool
             /\ result[c].seq = creq[c].seq

\* ------------------------------------------------------ the alias, exactly

\* the names under which the registry entry "Bad KB" is found
C35_OwnNames == {FLIPPER_APPS[1].name, FLIPPER_APPS[1].appid}
\* this step starts the built-in application "Bad KB"
C35_StartsBadKB ==
    /\ SlotRunning'
    /\ threads'[loader'.app.thread].name = "Bad KB"
    /\ loader'.app.fap = NoFap
\* C35: the alias, exactly. A start, from an Empty slot, of a name other than
\* "Bad USB", a longer name that begins with "Bad USB" included, is looked up
\* under the name requested (or the path registered for it) and starts the
\* built-in application "Bad KB" only if it is one of that entry's own names.
C35_Step ==
    HandlerStep(StartTypes) /\ SlotEmpty /\ message.name # "Bad USB"
    => /\ status'.path \in {message.name, FileOf(message.name)}
       /\ C35_StartsBadKB => message.name \in C35_OwnNames
       /\ BeginsWith(message.name, "Bad USB") =>
             /\ status'.value = "ErrorUnknownApp"
             /\ status'.msg = "Application \"" \o message.name \o "\" not found"
C35_OnlyLegacyName == [][C35_Step]_vars
\* a start of "Bad USB 2" has started the built-in application "Bad KB"
C35_Witness ==
    /\ status.name = "Bad USB 2" /\ status.value = "Ok" /\ status.kind = "internal"
    /\ status.path = "Bad KB"
    /\ SlotRunning
    /\ threads[loader.app.thread].name = "Bad KB"
    /\ threads[loader.app.thread].state = "running"

\* ------------------------------------------------------ unlock, then a call

\* the message in its handler is the call the client made right after an
\* unlock that followed a lock: nothing but that unlock has released the slot
\* and no application has been started
C36_AfterUnlock ==
    /\ message.client = 1
    /\ releases >= 1 /\ events = << >>
    /\ nhandled = 2 * releases
    /\ message.seq = nhandled + 1
\* C36: unlock is fire-and-forget, and seen in order. loader_unlock returns
\* when its message is in the queue, handled or not; the handler of an Unlock
\* on a locked slot leaves the slot Empty; and the call the same client makes
\* next, after lock and unlock and with no other client, finds the slot Empty:
\* the query answers false, a lock answers true and the start of a built-in
\* application answers Ok and runs it.
C36_Step ==
    /\ \A c \in Clients :
          cpc[c] = "put" /\ cpc'[c] # "put" /\ creq[c].type = "Unlock" =>
             cpc'[c] = "idle" /\ api_lock'[c] = "none" /\ loader' = loader
    /\ HandlerStep({"Unlock"}) => SlotLocked /\ SlotEmpty' /\ releases' = releases + 1
    /\ C36_AfterUnlock => SlotEmpty
    /\ C36_AfterUnlock /\ HandlerStep({"IsLocked"}) => Replied("bool", FALSE)
    /\ C36_AfterUnlock /\ HandlerStep({"Lock"}) => Replied("bool", TRUE) /\ SlotLocked'
    /\ C36_AfterUnlock /\ HandlerStep({"StartByName"}) =>
          /\ Replied("value", "Ok")
          /\ SlotRunning' /\ threads'[loader'.app.thread].name = "Bad KB"
C36_UnlockThenCall == [][C36_Step]_vars
\* lock(); unlock(); is_locked() has answered false
C36_Witness ==
    /\ releases = 1 /\ events = << >> /\ nhandled = 3
    /\ creq[1].type = "IsLocked" /\ creq[1].seq = 3
    /\ result[1].written /\ result[1].seq = 3 /\ ~result[1].bool
\* lock(); unlock(); start("Bad KB") has answered Ok
C36_StartWitness ==
    /\ releases = 1 /\ nhandled = 3
    /\ creq[1].type = "StartByName" /\ creq[1].seq = 3
    /\ result[1].written /\ result[1].seq = 3 /\ result[1].value = "Ok"
    /\ SlotRunning
\* loader_unlock has returned and the client is in its next call while the
\* Unlock is still in the queue and the slot still locked
C36_PendingWitness ==
    /\ queue # << >> /\ queue[1].type = "Unlock" /\ queue[1].client = 1
    /\ SlotLocked
    /\ cpc[1] = "put" /\ creq[1].type = "IsLocked"

\* ------------------------------------------------------------------ the menu

\* the menu instances that exist: loader_menu_alloc calls not yet followed by
\* their loader_menu_free
C37_Instances == IF loader.loader_menu.alloc THEN 1 ELSE 0
\* C37: the menu is a singleton. A ShowMenu or ShowSettings allocates a menu,
\* in the mode asked for, only when there is none, and otherwise leaves the
\* menu there is and its mode as they are; a MenuClosed frees the menu there
\* is and does nothing when there is none; so there is never more than one
\* menu, and none of the three touches the application slot, the threads, the
\* sleep inhibition or the events.
C37_Step ==
    /\ HandlerStep({"ShowMenu", "ShowSettings"}) =>
          /\ Did("menu_alloc") = 1 - C37_Instances
          /\ Did("menu_free") = 0
          /\ loader'.loader_menu.alloc
          /\ loader'.loader_menu.settings =
                IF loader.loader_menu.alloc THEN loader.loader_menu.settings
                ELSE message.type = "ShowSettings"
          /\ loader.loader_menu.alloc => loader' = loader /\ steps' = << >>
    /\ HandlerStep({"MenuClosed"}) =>
          /\ Did("menu_free") = C37_Instances
          /\ Did("menu_alloc") = 0
          /\ loader'.loader_menu = NoMenu
          /\ ~loader.loader_menu.alloc => loader' = loader /\ steps' = << >>
    /\ HandlerStep({"ShowMenu", "ShowSettings", "MenuClosed"}) =>
          /\ loader'.app = loader.app
          /\ loader'.loader_applications = loader.loader_applications
          /\ UNCHANGED << threads, insomnia, events >>
    /\ loader'.loader_menu # loader.loader_menu =>
          HandlerStep({"ShowMenu", "ShowSettings", "MenuClosed"})
C37_MenuSingleton == [][C37_Step]_vars
\* a ShowSettings has been handled while the menu was open and has left it
\* the main menu
C37_Witness ==
    /\ loader.loader_menu = [alloc |-> TRUE, settings |-> FALSE]
    /\ nhandled = 2 /\ steps = << >>
    /\ creq[1].type = "ShowSettings" /\ creq[1].seq = 2
\* a MenuClosed has been handled with no menu open
C37_ClosedWitness ==
    /\ loader.loader_menu = NoMenu
    /\ nhandled = 3 /\ steps = << >>
    /\ calls = 1 /\ creq[1].type = "ShowMenu"

====
